---- MODULE Spec2Model ----
(***************************************************************************)
(* Session aggregation state machine of the OMI GitHub issues app:         *)
(* the webhook handler (main.py: webhook / process_segments), the          *)
(* finalizer (process_issue_creation), the background idle sweeper         *)
(* (check_idle_sessions) and the trigger detector (issue_detector.py).     *)
(*                                                                         *)
(* Texts are sequences of one-character strings, so that lower(), strip(), *)
(* find() and slicing are computed the way Python computes them.           *)
(***************************************************************************)
EXTENDS Integers, Sequences, FiniteSets, Bags, TLC

\* ------------------------------------------------------------------------
\* Python string primitives
\* ------------------------------------------------------------------------
Whitespace == {" ", "\t", "\n"}

UpperCase ==
  <<"A","B","C","D","E","F","G","H","I","J","K","L","M",
    "N","O","P","Q","R","S","T","U","V","W","X","Y","Z">>

LowerCase ==
  <<"a","b","c","d","e","f","g","h","i","j","k","l","m",
    "n","o","p","q","r","s","t","u","v","w","x","y","z">>

\* the lower-case letter of every upper-case letter
LowerOf ==
  [c \in {UpperCase[i] : i \in 1..Len(UpperCase)} |->
     LowerCase[CHOOSE i \in 1..Len(UpperCase) : UpperCase[i] = c]]

lowerChar(c) == IF c \in DOMAIN LowerOf THEN LowerOf[c] ELSE c

\* str.lower()
lower(s) == [i \in 1..Len(s) |-> lowerChar(s[i])]

\* str.lstrip(), str.rstrip(), str.strip()
RECURSIVE lstrip(_)
lstrip(s) ==
  IF s # <<>> /\ Head(s) \in Whitespace THEN lstrip(Tail(s)) ELSE s

RECURSIVE rstrip(_)
rstrip(s) ==
  IF s # <<>> /\ s[Len(s)] \in Whitespace THEN rstrip(SubSeq(s, 1, Len(s) - 1)) ELSE s

strip(s) == rstrip(lstrip(s))

\* sub occurs in s at 0-based offset i
OccursAt(s, sub, i) ==
  /\ i + Len(sub) <= Len(s)
  /\ \A k \in 1..Len(sub) : s[i + k] = sub[k]

\* str.find(sub): lowest 0-based offset, or -1
find(s, sub) ==
  LET hits == {i \in 0..Len(s) : OccursAt(s, sub, i)}
  IN  IF hits = {} THEN -1
      ELSE CHOOSE i \in hits : \A j \in hits : i <= j

\* s[start:]
sliceFrom(s, start) == SubSeq(s, start + 1, Len(s))

\* " ".join(texts)
RECURSIVE join(_)
join(texts) ==
  IF texts = <<>> THEN <<>>
  ELSE IF Len(texts) = 1 THEN texts[1]
  ELSE texts[1] \o <<" ">> \o join(Tail(texts))

\* ------------------------------------------------------------------------
\* Trigger detector (issue_detector.py)
\* ------------------------------------------------------------------------
TRIGGER_PHRASES ==
    <<
       <<"f","e","e","d","b","a","c","k"," ","p","o","s","t">>,  \* feedback post
       <<"p","o","s","t"," ","f","e","e","d","b","a","c","k">>,  \* post feedback
       <<"s","u","b","m","i","t"," ","f","e","e","d","b","a","c","k">>,  \* submit feedback
       <<"s","e","n","d"," ","f","e","e","d","b","a","c","k">>,  \* send feedback
       <<"g","i","v","e"," ","f","e","e","d","b","a","c","k">>,  \* give feedback
       <<"p","r","o","d","u","c","t"," ","f","e","e","d","b","a","c","k">>,  \* product feedback
       <<"a","p","p"," ","f","e","e","d","b","a","c","k">>,  \* app feedback
       <<"c","r","e","a","t","e"," ","i","s","s","u","e">>,  \* create issue
       <<"c","r","e","a","t","e"," ","a","n"," ","i","s","s","u","e">>,  \* create an issue
       <<"r","e","p","o","r","t"," ","i","s","s","u","e">>,  \* report issue
       <<"r","e","p","o","r","t"," ","a","n"," ","i","s","s","u","e">>,  \* report an issue
       <<"f","i","l","e"," ","i","s","s","u","e">>,  \* file issue
       <<"f","i","l","e"," ","a","n"," ","i","s","s","u","e">>,  \* file an issue
       <<"n","e","w"," ","i","s","s","u","e">>,  \* new issue
       <<"o","p","e","n"," ","i","s","s","u","e">>,  \* open issue
       <<"p","o","s","t"," ","i","s","s","u","e">>,  \* post issue
       <<"s","u","b","m","i","t"," ","i","s","s","u","e">>,  \* submit issue
       <<"l","o","g"," ","i","s","s","u","e">>,  \* log issue
       <<"r","e","p","o","r","t"," ","b","u","g">>,  \* report bug
       <<"r","e","p","o","r","t"," ","a"," ","b","u","g">>,  \* report a bug
       <<"c","r","e","a","t","e"," ","b","u","g">>,  \* create bug
       <<"f","i","l","e"," ","b","u","g">>,  \* file bug
       <<"p","o","s","t"," ","b","u","g">>,  \* post bug
       <<"b","u","g"," ","r","e","p","o","r","t">>,  \* bug report
       <<"f","o","u","n","d"," ","a"," ","b","u","g">>,  \* found a bug
       <<"f","o","u","n","d"," ","b","u","g">>,  \* found bug
       <<"g","i","t","h","u","b"," ","i","s","s","u","e">>,  \* github issue
       <<"g","i","t","h","u","b"," ","p","o","s","t">>,  \* github post
       <<"g","i","t","h","u","b"," ","b","u","g">>,  \* github bug
       <<"c","r","e","a","t","e"," ","t","i","c","k","e","t">>,  \* create ticket
       <<"f","i","l","e"," ","t","i","c","k","e","t">>,  \* file ticket
       <<"r","e","p","o","r","t"," ","p","r","o","b","l","e","m">>,  \* report problem
       <<"p","r","o","b","l","e","m"," ","r","e","p","o","r","t">>  \* problem report
    >>

\* extract_issue_content returns None
None == <<"None">>

normalize_text(text) == strip(lower(text))

\* detect_trigger on the text as it is, without lower()
detect_trigger_NoLower(text) ==
  LET normalized == strip(text)
  IN  \E p \in 1..Len(TRIGGER_PHRASES) : find(normalized, TRIGGER_PHRASES[p]) # -1

\* lines 64-68: some trigger phrase occurs in the normalized text
detect_trigger(text) ==
  LET normalized == normalize_text(text)
  IN  \E p \in 1..Len(TRIGGER_PHRASES) : find(normalized, TRIGGER_PHRASES[p]) # -1

\* lines 76-84: the loop takes the first phrase of the list that is found
\* anywhere in the normalized text (0: none is found)
matched_trigger(normalized) ==
  LET found == {p \in 1..Len(TRIGGER_PHRASES) : find(normalized, TRIGGER_PHRASES[p]) # -1}
  IN  IF found = {} THEN 0
      ELSE CHOOSE q \in found : \A r \in found : q <= r

\* The offset of the matched phrase in the normalized text is used to slice
\* the original text.
extract_issue_content(text) ==
  LET normalized == normalize_text(text)
      p == matched_trigger(normalized)
  IN  IF p = 0 THEN None
      ELSE LET trigger_index == find(normalized, TRIGGER_PHRASES[p])
               start_index == trigger_index + Len(TRIGGER_PHRASES[p])
               content == strip(sliceFrom(text, start_index))
           IN  IF content # <<>> THEN content ELSE None

\* no text has been handed to the detector
NoProbe == [words |-> 0, text |-> <<>>, detected |-> FALSE, content |-> None]

\* ------------------------------------------------------------------------
\* Bounds and inputs
\* ------------------------------------------------------------------------
\* concurrent webhook requests that may be suspended at an await
MaxInflight == 2
\* webhook batches carrying a trigger phrase, per session, over one run
MaxTriggers == 1
\* seconds by which the clock advances between two observed events
TickStep == 5
\* words of a text handed to the trigger detector
MaxWords == 3
\* writes of one user record that are followed
MaxUpdates == 1
\* OAuth states that auth start can issue
MaxStates == 1

\* the words spoken to the detector and what separates them: nothing (first
\* word only), one space, a run of two spaces
Words ==
  { <<"F","i","l","e">>, <<"b","u","g">>, <<"r","e","p","o","r","t">>, <<"x">> }
Leads == { <<>>, <<" ">>, <<" ", " ">> }

SessionIds == {"omi_session_u1", "test_session_1"}

\* session_id.startswith("test_session")
is_test_session(session_id) == session_id \in {"test_session_1"}

\* texts of the segments that arrive
TextFileBug == <<"F","i","l","e"," ","B","u","g">>
TextX == <<"x">>
TextReport == <<"r","e","p","o","r","t"," ","a"," ","b","u","g",":"," ","a","p","p"," ","c","r","a","s","h","e","s"," ","o","n"," ","s","a","v","e">>
TextNewIssue == <<"n","e","w"," ","i","s","s","u","e">>
TextOk == <<"o","k">>

\* webhook payloads: ordered lists of segment texts
TriggerBatches == { <<TextFileBug, TextX>>, <<TextReport>>, <<TextNewIssue>> }
PlainBatches == { <<TextOk>> }
\* the texts of a payload whose one segment has no text
TextEmpty == <<>>
EmptyBatches == { <<TextEmpty>> }
Batches == TriggerBatches \cup PlainBatches \cup EmptyBatches

\* the devices of a run: the session id a device sends for, the trigger
\* batch its user speaks, and by how much the number of requests that may
\* be suspended at once stays below MaxInflight. A test session with a
\* short content takes the path of a live session, so the short content is
\* spoken to a live session and the long one to a test session.
Devices ==
  { <<"omi_session_u1", <<TextFileBug, TextX>>, 0>>,
    <<"omi_session_u1", <<TextNewIssue>>, 1>>,
    <<"test_session_1", <<TextReport>>, 0>>,
    <<"test_session_1", <<TextNewIssue>>, 0>> }

\* the trigger detector applied to the texts that arrive, computed once
InputTexts == {join(b) : b \in Batches}
Detected == [t \in InputTexts |-> detect_trigger(t)]
Extracted == [t \in InputTexts |-> extract_issue_content(t)]

\* replies of the completeness model, and a failed call
ReplyYesYes == <<"C","O","M","P","L","E","T","E",":"," ","y","e","s","\n","O","N","_","T","O","P","I","C",":"," ","y","e","s">>
ReplyNoYes == <<"C","O","M","P","L","E","T","E",":"," ","n","o","\n","O","N","_","T","O","P","I","C",":"," ","y","e","s">>
ReplyNoNo == <<"C","O","M","P","L","E","T","E",":"," ","n","o","\n","O","N","_","T","O","P","I","C",":"," ","n","o">>
ClassifierReplies == { ReplyYesYes, ReplyNoYes, ReplyNoNo }

\* what the generator returns: (None, None), a title of at most 3
\* characters, or a usable title and description
GeneratorResults == { "not_an_issue", "short", "ok" }
\* what the tracker calls (label fetch, issue creation) do
TrackerResults == { "success", "failure", "raise" }
\* the tracker is called only with a usable title and description
TrackerAfter(generated) ==
  IF generated = "ok" THEN TrackerResults ELSE { "not_called" }
\* what the collaborators of one process_issue_creation call do
FinalizerRuns ==
  { <<generated, tracker>> \in GeneratorResults \X (TrackerResults \cup { "not_called" }) :
      tracker \in TrackerAfter(generated) }

\* ------------------------------------------------------------------------
\* Program constants (main.py)
\* ------------------------------------------------------------------------
MIN_SEGMENTS == 3
GOOD_SEGMENTS == 5
MAX_SEGMENTS == 10
IDLE_TIMEOUT == 5
DISCARD_LEN == 15
TEST_MODE_LEN == 20

\* ------------------------------------------------------------------------
\* State
\* ------------------------------------------------------------------------
VARIABLES
  sessions,   \* simple_storage.sessions: the session dict, in insertion order
  tasks,      \* the webhook requests suspended at an await (a bag of frames)
  sweeper,    \* check_idle_sessions: position and its idle_sessions list
  triggers,   \* trigger batches received so far, per session (bounded by MaxTriggers)
  report,     \* history: per session, number of the report being collected
  admitted,   \* history: per session, seed and batch texts admitted since the trigger
  finalized,  \* history: per session, highest report number handed to the Finalizer
  swept,      \* history: sessions the sweeper's last pass finalized, no batch since
  event,      \* history: what the last step did and returned
  env         \* the run's environment: session ids in use, batches sent,
              \* requests that may be suspended at once, trigger batches
              \* per session
  , probe     \* the text handed to the trigger detector and what it answered
  , users     \* simple_storage.users: the user dict
  , users_file  \* the content of USERS_FILE, as save_users wrote it last
  , oauth_states  \* main.oauth_states: the pending OAuth states, as a set
                  \* of <<state, uid>> pairs, one pair per state

vars == <<sessions, tasks, sweeper, triggers, report, admitted, finalized, swept, event, env, probe, users, users_file, oauth_states>>

\* a suspended request: where it waits and the locals it resumes with
Task(pc, session_id, accumulated, segments_count, rep) ==
  [pc |-> pc, session_id |-> session_id, accumulated |-> accumulated,
   segments_count |-> segments_count, report |-> rep]

\* the value process_segments returned, or the await it is suspended at;
\* n is the count of collecting_<n>
Status(kind, n) == [kind |-> kind, n |-> n]

\* full_text: the batch text a webhook step received; again: the step handed
\* to the Finalizer a report that had been handed to it before; raised: the
\* step of the sweeper caught an exception of process_issue_creation
Event(op, session_id, status, full_text, again) ==
  [op |-> op, session_id |-> session_id, status |-> status, full_text |-> full_text,
   again |-> again, raised |-> FALSE]

NoEvent == Event("none", "", Status("none", 0), <<>>, FALSE)

\* a user record: the fields the program reads; updated_at counts the
\* writes of the record, each of which stores a later time
UserRecord(access_token, github_username, selected_repo, available_repos, updated_at) ==
  [access_token |-> access_token, github_username |-> github_username,
   selected_repo |-> selected_repo, available_repos |-> available_repos,
   updated_at |-> updated_at]

\* the user store as load_storage finds it: one authenticated user with a
\* selected repository
SetUpUsers == [u1 |-> UserRecord("token", "octocat", "owner/repo", <<"owner/repo">>, 0)]

uid_of(session_id) == "u1"

\* ------------------------------------------------------------------------
\* Session store (SimpleSessionStorage)
\* ------------------------------------------------------------------------
Has(store, session_id) == \E i \in 1..Len(store) : store[i].session_id = session_id

Idx(store, session_id) == CHOOSE i \in 1..Len(store) : store[i].session_id = session_id

Get(store, session_id) == store[Idx(store, session_id)]

\* idle is now - last_activity_at in seconds, saturated at IDLE_TIMEOUT + 1
\* (every comparison the program makes is idle_time > 5)
NewSession(session_id, uid) ==
  [session_id |-> session_id, uid |-> uid, issue_mode |-> "idle",
   accumulated_text |-> <<>>, segments_count |-> 0, idle |-> 0]

get_or_create_session(store, session_id, uid) ==
  IF Has(store, session_id) THEN store
  ELSE Append(store, NewSession(session_id, uid))

\* update_session(session_id, **kwargs): sets the given fields and
\* last_activity_at
update_session(store, session_id, kwargs) ==
  LET r == Get(store, session_id)
      val(f) == IF f \in DOMAIN kwargs THEN kwargs[f] ELSE r[f]
  IN  [store EXCEPT ![Idx(store, session_id)] =
         [session_id |-> r.session_id, uid |-> r.uid,
          issue_mode |-> val("issue_mode"),
          accumulated_text |-> val("accumulated_text"),
          segments_count |-> val("segments_count"),
          idle |-> 0]]

reset_session(store, session_id) ==
  LET r == Get(store, session_id)
  IN  [store EXCEPT ![Idx(store, session_id)] =
         [session_id |-> r.session_id, uid |-> r.uid, issue_mode |-> "idle",
          accumulated_text |-> <<>>, segments_count |-> 0, idle |-> 0]]

get_session_idle_time(store, session_id) == Get(store, session_id).idle

\* ------------------------------------------------------------------------
\* Collaborators
\* ------------------------------------------------------------------------
\* a failed call to the completeness model
Raise == <<"raise">>

NeedleComplete == <<"C","O","M","P","L","E","T","E",":"," ","y","e","s">>
NeedleOnTopic == <<"O","N","_","T","O","P","I","C",":"," ","y","e","s">>

\* ai_check_if_issue_complete with a failed call taken as off topic
ai_check_if_issue_complete_OffTopic(reply) ==
  IF reply = Raise
    THEN [is_complete |-> FALSE, is_still_on_topic |-> FALSE]
    ELSE LET result == strip(reply)
         IN  [is_complete |-> find(lower(result), NeedleComplete) # -1,
              is_still_on_topic |-> find(lower(result), NeedleOnTopic) # -1]

\* ai_check_if_issue_complete: the reply is searched for the two marker lines
\* after it has been lowercased; a failed call yields the fallback
ai_check_if_issue_complete(reply) ==
  IF reply = Raise
    THEN [is_complete |-> FALSE, is_still_on_topic |-> TRUE]
    ELSE LET result == strip(reply)
         IN  [is_complete |-> find(lower(result), NeedleComplete) # -1,
              is_still_on_topic |-> find(lower(result), NeedleOnTopic) # -1]

\* ------------------------------------------------------------------------
\* process_issue_creation (main.py): what the suspended Finalizer does when
\* its collaborator calls have returned
\* ------------------------------------------------------------------------
\* process_issue_creation reporting a rejection by the generator as a failure
process_issue_creation_RejectFails(store, session_id, generated, tracker) ==
  IF generated = "not_an_issue"
    THEN [sessions |-> reset_session(store, session_id), status |-> "failed"]
  ELSE IF generated = "short"
    THEN [sessions |-> reset_session(store, session_id), status |-> "no_content"]
  ELSE IF tracker = "raise"
    THEN [sessions |-> store, status |-> "error"]
  ELSE IF tracker = "success"
    THEN [sessions |-> reset_session(store, session_id), status |-> "created"]
  ELSE [sessions |-> reset_session(store, session_id), status |-> "failed"]

process_issue_creation(store, session_id, generated, tracker) ==
  IF generated = "not_an_issue"
    THEN [sessions |-> reset_session(store, session_id), status |-> "not_valid"]
  ELSE IF generated = "short"
    THEN [sessions |-> reset_session(store, session_id), status |-> "no_content"]
  ELSE IF tracker = "raise"
    THEN [sessions |-> store, status |-> "error"]
  ELSE IF tracker = "success"
    THEN [sessions |-> reset_session(store, session_id), status |-> "created"]
  ELSE [sessions |-> reset_session(store, session_id), status |-> "failed"]

\* ------------------------------------------------------------------------
\* process_segments (main.py), up to its first await or its return
\* ------------------------------------------------------------------------
Outcome(store, next, status, accumulated, segments_count, started, appended) ==
  [sessions |-> store, next |-> next, status |-> status,
   accumulated |-> accumulated, segments_count |-> segments_count,
   started |-> started, appended |-> appended]

\* lines 854-864: mark as processing, then call process_issue_creation
StartProcessing(store, session_id, accumulated, segments_count) ==
  Outcome(update_session(store, session_id,
                         [issue_mode |-> "processing",
                          accumulated_text |-> accumulated,
                          segments_count |-> segments_count]),
          "finalizer", Status("awaiting_finalizer", 0), accumulated, segments_count,
          FALSE, FALSE)

\* StartRecording without issue_mode in the update: the session keeps its mode
StartRecording_NoMode(store, session_id, issue_content, full_text) ==
  Outcome(update_session(store, session_id,
                         [accumulated_text |->
                            IF issue_content # None THEN issue_content ELSE full_text,
                          segments_count |-> 1]),
          "return", Status("collecting", 1),
          IF issue_content # None THEN issue_content ELSE full_text, 1,
          TRUE, FALSE)

\* StartRecording seeding with the whole batch text, trigger phrase included
StartRecording_FullText(store, session_id, issue_content, full_text) ==
  Outcome(update_session(store, session_id,
                         [issue_mode |-> "recording",
                          accumulated_text |-> full_text,
                          segments_count |-> 1]),
          "return", Status("collecting", 1), full_text, 1, TRUE, FALSE)

\* lines 759-767: start collecting
StartRecording(store, session_id, issue_content, full_text) ==
  Outcome(update_session(store, session_id,
                         [issue_mode |-> "recording",
                          accumulated_text |->
                            IF issue_content # None THEN issue_content ELSE full_text,
                          segments_count |-> 1]),
          "return", Status("collecting", 1),
          IF issue_content # None THEN issue_content ELSE full_text, 1,
          TRUE, FALSE)

\* lines 693-767: trigger phrase on an idle session
TriggerBranch(store, session_id, full_text) ==
  LET issue_content == Extracted[full_text]
  IN  IF is_test_session(session_id)
        THEN IF issue_content = None
               \* len(None): TypeError, the request fails
               THEN Outcome(store, "raise", Status("error", 0), <<>>, 0, FALSE, FALSE)
             ELSE IF Len(issue_content) > TEST_MODE_LEN
               THEN Outcome(store, "test_generate", Status("awaiting_test_generate", 0),
                            issue_content, 0, FALSE, FALSE)
             ELSE StartRecording(store, session_id, issue_content, full_text)
        ELSE StartRecording(store, session_id, issue_content, full_text)

\* AddSegment storing the count but not the text
AddSegment_LostUpdate(store, session_id, accumulated, segments_count) ==
  update_session(store, session_id, [segments_count |-> segments_count])

\* lines 789-801: add the new segment
AddSegment(store, session_id, accumulated, segments_count) ==
  update_session(store, session_id,
                 [accumulated_text |-> accumulated,
                  segments_count |-> segments_count])

\* Appended without the separating space
Appended_NoSpace(accumulated, full_text) == accumulated \o full_text

\* line 790: accumulated += " " + full_text
Appended(accumulated, full_text) == accumulated \o <<" ">> \o full_text

\* Decide without the safety limit: the classifier is asked at every count
\* from GOOD_SEGMENTS on
Decide_NoMax(segments_count) ==
  IF segments_count < MIN_SEGMENTS THEN "collect"
  ELSE IF segments_count < GOOD_SEGMENTS THEN "collect"
  ELSE "check"

\* Decide without the baseline window below GOOD_SEGMENTS
Decide_NoBaseline(segments_count) ==
  IF segments_count < MIN_SEGMENTS THEN "collect"
  ELSE IF segments_count >= MAX_SEGMENTS THEN "process"
  ELSE "check"

\* lines 803-820: what the new count decides, before any AI check
Decide(segments_count) ==
  IF segments_count < MIN_SEGMENTS THEN "collect"
  ELSE IF segments_count < GOOD_SEGMENTS THEN "collect"
  ELSE IF segments_count >= MAX_SEGMENTS THEN "process"
  ELSE "check"

\* WentSilent without the test of the idle time
WentSilent_Off(idle_time, segments_count) == FALSE

\* lines 784: the user went silent with enough segments
WentSilent(idle_time, segments_count) ==
  idle_time # 0 /\ idle_time > IDLE_TIMEOUT /\ segments_count >= MIN_SEGMENTS

\* lines 770-864: a batch for a session that is recording
RecordingBranch(store, session, full_text) ==
  LET session_id == session.session_id
      idle_time == get_session_idle_time(store, session_id)
  IN  IF WentSilent(idle_time, session.segments_count)
        THEN StartProcessing(store, session_id, session.accumulated_text,
                             session.segments_count)
        ELSE LET accumulated == Appended(session.accumulated_text, full_text)
                 segments_count == session.segments_count + 1
                 added == AddSegment(store, session_id, accumulated, segments_count)
             IN  IF Decide(segments_count) = "collect"
                   THEN Outcome(added, "return", Status("collecting", segments_count),
                                accumulated, segments_count, FALSE, TRUE)
                 ELSE IF Decide(segments_count) = "process"
                   THEN [StartProcessing(added, session_id, accumulated, segments_count)
                           EXCEPT !.appended = TRUE]
                 ELSE Outcome(added, "classifier", Status("awaiting_classifier", 0),
                              accumulated, segments_count, FALSE, TRUE)

\* process_segments taking a batch for a session in processing as a fragment
process_segments_Queued(store, session, full_text) ==
  IF Detected[full_text] /\ session.issue_mode = "idle"
    THEN TriggerBranch(store, session.session_id, full_text)
  ELSE IF session.issue_mode \in {"recording", "processing"}
    THEN RecordingBranch(store, session, full_text)
  ELSE Outcome(store, "return", Status("listening", 0), <<>>, 0, FALSE, FALSE)

\* process_segments starting a collection on any batch for an idle session
process_segments_Or(store, session, full_text) ==
  IF Detected[full_text] \/ session.issue_mode = "idle"
    THEN TriggerBranch(store, session.session_id, full_text)
  ELSE IF session.issue_mode = "recording"
    THEN RecordingBranch(store, session, full_text)
  ELSE IF session.issue_mode = "processing"
    THEN Outcome(store, "return", Status("processing", 0), <<>>, 0, FALSE, FALSE)
  ELSE Outcome(store, "return", Status("listening", 0), <<>>, 0, FALSE, FALSE)

process_segments(store, session, full_text) ==
  IF Detected[full_text] /\ session.issue_mode = "idle"
    THEN TriggerBranch(store, session.session_id, full_text)
  ELSE IF session.issue_mode = "recording"
    THEN RecordingBranch(store, session, full_text)
  ELSE IF session.issue_mode = "processing"
    THEN Outcome(store, "return", Status("processing", 0), <<>>, 0, FALSE, FALSE)
  ELSE Outcome(store, "return", Status("listening", 0), <<>>, 0, FALSE, FALSE)

\* the parse applied to the replies that arrive, computed once
CheckResults == [r \in ClassifierReplies \cup {Raise} |-> ai_check_if_issue_complete(r)]

\* lines 823-864: process_segments resumed with the classifier's answer
AfterClassifier(store, session_id, accumulated, segments_count, reply) ==
  LET check_result == CheckResults[reply]
      is_complete == check_result.is_complete
      is_on_topic == check_result.is_still_on_topic
  IN  IF is_complete
        THEN StartProcessing(store, session_id, accumulated, segments_count)
      ELSE IF ~is_on_topic /\ Len(strip(accumulated)) < DISCARD_LEN
        THEN Outcome(reset_session(store, session_id), "return", Status("discarded", 0),
                     accumulated, segments_count, FALSE, FALSE)
      ELSE IF ~is_on_topic
        THEN StartProcessing(store, session_id, accumulated, segments_count)
      ELSE Outcome(store, "return", Status("collecting", segments_count),
                   accumulated, segments_count, FALSE, FALSE)

\* lines 700-757: the test interface runs generator and tracker inline;
\* every outcome but an exception resets the session
test_mode_generate(store, session_id, generated, tracker) ==
  IF generated = "not_an_issue"
    THEN [sessions |-> reset_session(store, session_id), status |-> "not_valid"]
  ELSE IF generated = "short"
    THEN [sessions |-> reset_session(store, session_id), status |-> "no_content"]
  ELSE IF tracker = "raise"
    THEN [sessions |-> store, status |-> "error"]
  ELSE IF tracker = "success"
    THEN [sessions |-> reset_session(store, session_id), status |-> "created"]
  ELSE [sessions |-> reset_session(store, session_id), status |-> "failed"]

\* ------------------------------------------------------------------------
\* The webhook's answer (main.py 652-666)
\* ------------------------------------------------------------------------
\* the two emoji that open the messages of process_issue_creation, each one
\* character of the message
CheckMark == "(check)"
CrossMark == "(cross)"

DigitChars == <<"0","1","2","3","4","5","6","7","8","9">>

\* str(n) of an f-string
RECURSIVE Digits(_)
Digits(n) ==
  IF n < 10 THEN <<DigitChars[n + 1]>>
  ELSE Digits(n \div 10) \o <<DigitChars[(n % 10) + 1]>>

\* the strings process_segments and process_issue_creation return; the
\* tracker's issue number, the generated title and the url are 7, "t" and "u"
MsgCreated == <<CheckMark," ","I","s","s","u","e"," ","c","r","e","a","t","e","d",":"," ","#","7"," ","-"," ","t","\n","u">>
MsgFailed == <<CrossMark," ","F","a","i","l","e","d",":"," ","U","n","k","n","o","w","n">>
MsgNotValid == <<CrossMark," ","N","o","t"," ","a"," ","v","a","l","i","d"," ","i","s","s","u","e"," ","(","a","c","c","i","d","e","n","t","a","l"," ","t","r","i","g","g","e","r",")">>
MsgNoContent == <<CrossMark," ","N","o"," ","v","a","l","i","d"," ","i","s","s","u","e"," ","c","o","n","t","e","n","t">>
MsgCollecting == <<"c","o","l","l","e","c","t","i","n","g","_">>
MsgDiscarded == <<"d","i","s","c","a","r","d","e","d">>
MsgProcessing == <<"p","r","o","c","e","s","s","i","n","g">>
MsgListening == <<"l","i","s","t","e","n","i","n","g">>

NeedleCreated == <<CheckMark," ","I","s","s","u","e"," ","c","r","e","a","t","e","d",":">>
NeedleFailed == <<CrossMark," ","F","a","i","l","e","d",":">>

\* the value process_segments returns for a status
response_message(status) ==
  CASE status.kind = "created" -> MsgCreated
    [] status.kind = "failed" -> MsgFailed
    [] status.kind = "not_valid" -> MsgNotValid
    [] status.kind = "no_content" -> MsgNoContent
    [] status.kind = "collecting" -> MsgCollecting \o Digits(status.n)
    [] status.kind = "discarded" -> MsgDiscarded
    [] status.kind = "processing" -> MsgProcessing
    [] status.kind = "listening" -> MsgListening

\* what the caller of the webhook receives
SilentOk == [http |-> 200, status |-> "ok", message |-> <<>>, session_id |-> ""]
Notification(message, session_id) ==
  [http |-> 200, status |-> "", message |-> message, session_id |-> session_id]
\* an exception that leaves the handler is answered by the framework
ServerError == [http |-> 500, status |-> "", message |-> <<>>, session_id |-> ""]
\* lines 600-615: the request is refused, the body says setup_required
SetupRequired(n) == [http |-> n, status |-> "setup_required", message |-> <<>>, session_id |-> ""]
\* the request is suspended at an await, or the step is not a request's
NoResponse == [http |-> 0, status |-> "", message |-> <<>>, session_id |-> ""]

\* webhook_response passing every message of process_segments on
webhook_response_Loud(message, session_id) ==
  IF message # <<>>
    THEN Notification(message, session_id)
    ELSE SilentOk

\* lines 655-666: only the two final messages are passed on
webhook_response(message, session_id) ==
  IF message # <<>> /\ (find(message, NeedleCreated) # -1 \/ find(message, NeedleFailed) # -1)
    THEN Notification(message, session_id)
    ELSE SilentOk

\* the answer to the request a step has completed: line 640 answers a
\* payload without segments, an exception of process_segments leaves webhook
Respond(e) ==
  IF e.op \notin {"webhook", "classifier_return", "finalizer_return", "test_return"}
       \/ e.status.kind \in {"awaiting_classifier", "awaiting_finalizer", "awaiting_test_generate", "none"}
    THEN NoResponse
  ELSE IF e.status.kind = "setup_required" THEN SetupRequired(e.status.n)
  ELSE IF e.status.kind = "no_segments" THEN SilentOk
  ELSE IF e.status.kind = "error" THEN ServerError
  ELSE webhook_response(response_message(e.status), e.session_id)

\* ------------------------------------------------------------------------
\* History bookkeeping
\* ------------------------------------------------------------------------
\* the admitted texts of a session are forgotten when the session is idle
CleanAdmitted(store, adm) ==
  [s \in SessionIds |->
     IF Has(store, s) /\ Get(store, s).issue_mode # "idle" THEN adm[s] ELSE <<>>]

\* report rep of the session is handed to the Finalizer
Handed(fin, session_id, rep) ==
  [fin EXCEPT ![session_id] = IF rep > @ THEN rep ELSE @]

Suspends(next) == next \in {"classifier", "finalizer", "test_generate"}

\* ------------------------------------------------------------------------
\* Initial state: no session exists, nothing is in flight
\* ------------------------------------------------------------------------
InitState ==
  /\ sessions = <<>>
  /\ tasks = EmptyBag
  /\ sweeper = [pc |-> "sleep", idle_sessions |-> <<>>]
  /\ triggers = [s \in SessionIds |-> 0]
  /\ report = [s \in SessionIds |-> 0]
  /\ admitted = [s \in SessionIds |-> <<>>]
  /\ finalized = [s \in SessionIds |-> 0]
  /\ swept = {}
  /\ event = NoEvent
  /\ probe = NoProbe
  /\ users = SetUpUsers
  /\ users_file = SetUpUsers
  /\ oauth_states = {}

\* one device per run: one session id, one kind of trigger batch
Init ==
  /\ InitState
  /\ env \in {[clients |-> {d[1]}, batches |-> {d[2]} \cup PlainBatches,
               inflight |-> MaxInflight - d[3], triggers |-> MaxTriggers] : d \in Devices}

\* ------------------------------------------------------------------------
\* The setup webhook requires (main.py 596-615)
\* ------------------------------------------------------------------------
\* Refusal without the test of the access token
Refusal_RepoOnly(store, uid) ==
  IF uid \notin DOMAIN store THEN 401
  ELSE IF store[uid].selected_repo = "" THEN 400
  ELSE 0

\* the status code webhook refuses the request of uid with, 0 if it does
\* not: 401 without a record or an access token, 400 without a repository
Refusal(store, uid) ==
  IF uid \notin DOMAIN store \/ store[uid].access_token = "" THEN 401
  ELSE IF store[uid].selected_repo = "" THEN 400
  ELSE 0

\* ------------------------------------------------------------------------
\* webhook (main.py 582-666) with process_segments up to its first await
\* ------------------------------------------------------------------------
Webhook(session_id, segments) ==
  LET uid == uid_of(session_id)
      store == get_or_create_session(sessions, session_id, uid)
      session == Get(store, session_id)
      full_text == join(segments)
      out == process_segments(store, session, full_text)
      rep == IF out.started THEN report[session_id] + 1 ELSE report[session_id]
      \* a trigger batch counts against MaxTriggers unless the session is in
      \* processing, where line 867 answers it without reading it
      counted == Detected[full_text] /\ session.issue_mode # "processing"
  IN  /\ event = NoEvent
      /\ Refusal(users, uid) = 0
      /\ session_id \in env.clients /\ segments \in env.batches
      /\ counted => triggers[session_id] < env.triggers
      /\ Suspends(out.next) => BagCardinality(tasks) < env.inflight
      /\ sessions' = out.sessions
      /\ triggers' = IF counted THEN [triggers EXCEPT ![session_id] = @ + 1] ELSE triggers
      /\ tasks' = IF Suspends(out.next)
                    THEN tasks (+) SetToBag({Task(out.next, session_id, out.accumulated,
                                                  out.segments_count, rep)})
                    ELSE tasks
      /\ report' = [report EXCEPT ![session_id] = rep]
      /\ admitted' = CleanAdmitted(out.sessions,
                       [admitted EXCEPT ![session_id] =
                          IF out.started THEN <<out.accumulated>>
                          ELSE IF out.appended THEN Append(@, full_text)
                          ELSE @])
      /\ finalized' = IF out.next = "finalizer" THEN Handed(finalized, session_id, rep)
                      ELSE finalized
      /\ event' = Event("webhook", session_id, out.status, full_text,
                        out.next = "finalizer" /\ rep <= finalized[session_id])
      /\ swept' = swept \ {session_id}
      /\ UNCHANGED <<sweeper, env, probe, users, users_file, oauth_states>>

\* the completeness check returns (or fails) and process_segments goes on
ClassifierReturn(t, reply) ==
  LET out == AfterClassifier(sessions, t.session_id, t.accumulated,
                             t.segments_count, reply)
  IN  /\ event = NoEvent
      /\ BagIn(t, tasks) /\ t.pc = "classifier"
      /\ sessions' = out.sessions
      /\ tasks' = IF out.next = "finalizer"
                    THEN (tasks (-) SetToBag({t})) (+) SetToBag({[t EXCEPT !.pc = "finalizer"]})
                    ELSE tasks (-) SetToBag({t})
      /\ admitted' = CleanAdmitted(out.sessions, admitted)
      /\ finalized' = IF out.next = "finalizer"
                        THEN Handed(finalized, t.session_id, t.report)
                        ELSE finalized
      /\ event' = Event("classifier_return", t.session_id, out.status, <<>>,
                        out.next = "finalizer" /\ t.report <= finalized[t.session_id])
      /\ UNCHANGED <<sweeper, triggers, report, swept, env, probe, users, users_file, oauth_states>>

\* process_issue_creation returns to process_segments, or raises through it
FinalizerReturn(t, generated, tracker) ==
  LET out == process_issue_creation(sessions, t.session_id, generated, tracker)
  IN  /\ event = NoEvent
      /\ BagIn(t, tasks) /\ t.pc = "finalizer"
      /\ sessions' = out.sessions
      /\ tasks' = tasks (-) SetToBag({t})
      /\ admitted' = CleanAdmitted(out.sessions, admitted)
      /\ event' = Event("finalizer_return", t.session_id, Status(out.status, 0),
                        <<>>, FALSE)
      /\ UNCHANGED <<sweeper, triggers, report, finalized, swept, env, probe, users, users_file, oauth_states>>

\* the inline test-mode processing returns, or raises
TestGenerateReturn(t, generated, tracker) ==
  LET out == test_mode_generate(sessions, t.session_id, generated, tracker)
  IN  /\ event = NoEvent
      /\ BagIn(t, tasks) /\ t.pc = "test_generate"
      /\ sessions' = out.sessions
      /\ tasks' = tasks (-) SetToBag({t})
      /\ admitted' = CleanAdmitted(out.sessions, admitted)
      /\ event' = Event("test_return", t.session_id, Status(out.status, 0),
                        <<>>, FALSE)
      /\ UNCHANGED <<sweeper, triggers, report, finalized, swept, env, probe, users, users_file, oauth_states>>

\* ------------------------------------------------------------------------
\* check_idle_sessions (main.py 29-73)
\* ------------------------------------------------------------------------
\* lines 38-49: the sessions found idle, with the values read during the scan
IsIdleRecording(store, session) ==
  /\ session.issue_mode = "recording"
  /\ LET idle_time == get_session_idle_time(store, session.session_id)
     IN  idle_time # 0 /\ idle_time > IDLE_TIMEOUT /\ session.segments_count >= MIN_SEGMENTS

RECURSIVE ScanFrom(_, _)
ScanFrom(store, i) ==
  IF i > Len(store) THEN <<>>
  ELSE IF IsIdleRecording(store, store[i])
    THEN <<[session_id |-> store[i].session_id,
            accumulated |-> store[i].accumulated_text,
            segments_count |-> store[i].segments_count,
            report |-> report[store[i].session_id]]>> \o ScanFrom(store, i + 1)
  ELSE ScanFrom(store, i + 1)

\* line 56: entries whose user lacks a token or a repository are passed over
UserReady(uid) == users[uid].access_token # "" /\ users[uid].selected_repo # ""

RECURSIVE SkipUnready(_)
SkipUnready(entries) ==
  IF entries = <<>> THEN <<>>
  ELSE IF UserReady(uid_of(Head(entries).session_id)) THEN entries
  ELSE SkipUnready(Tail(entries))

\* lines 59-63: mark as processing
SweeperMark(store, session_id) ==
  update_session(store, session_id, [issue_mode |-> "processing"])

\* lines 52-67 for the next entry of idle_sessions, up to the await
SweeperProceed(op, raised, store, entries) ==
  LET ready == SkipUnready(entries)
  IN  IF ready = <<>>
        THEN /\ sessions' = store
             /\ sweeper' = [pc |-> "sleep", idle_sessions |-> <<>>]
             /\ finalized' = finalized
             /\ swept' = IF op = "sweeper_tick" THEN {} ELSE swept
             /\ admitted' = CleanAdmitted(store, admitted)
             /\ event' = [Event(op, "", Status("none", 0), <<>>, FALSE)
                          EXCEPT !.raised = raised]
        ELSE LET e == Head(ready)
                 marked == SweeperMark(store, e.session_id)
             IN  /\ sessions' = marked
                 /\ sweeper' = [pc |-> "finalizer", idle_sessions |-> ready]
                 /\ finalized' = Handed(finalized, e.session_id, e.report)
                 /\ swept' = IF op = "sweeper_tick" THEN {e.session_id}
                             ELSE swept \cup {e.session_id}
                 /\ admitted' = CleanAdmitted(marked, admitted)
                 /\ event' = [Event(op, e.session_id, Status("awaiting_finalizer", 0),
                                    <<>>, e.report <= finalized[e.session_id])
                                EXCEPT !.raised = raised]

\* the sleep is over: scan, then start on the first idle session
SweeperTick ==
  /\ event = NoEvent
  /\ sweeper.pc = "sleep"
  /\ SweeperProceed("sweeper_tick", FALSE, sessions, ScanFrom(sessions, 1))
  /\ UNCHANGED <<tasks, triggers, report, env, probe, users, users_file, oauth_states>>

\* SweeperFinalize without the except clause of lines 68-70
SweeperFinalize_NoReset(store, session_id, generated, tracker) ==
  process_issue_creation(store, session_id, generated, tracker).sessions

\* lines 66-70: an exception of process_issue_creation resets the session
SweeperFinalize(store, session_id, generated, tracker) ==
  LET out == process_issue_creation(store, session_id, generated, tracker)
  IN  IF out.status = "error" THEN reset_session(out.sessions, session_id)
      ELSE out.sessions

\* the sweeper's process_issue_creation is over; on to the next entry
SweeperReturn(generated, tracker) ==
  /\ event = NoEvent
  /\ sweeper.pc = "finalizer"
  /\ SweeperProceed("sweeper_return",
                    process_issue_creation(sessions, Head(sweeper.idle_sessions).session_id,
                                           generated, tracker).status = "error",
                    SweeperFinalize(sessions, Head(sweeper.idle_sessions).session_id,
                                    generated, tracker),
                    Tail(sweeper.idle_sessions))
  /\ UNCHANGED <<tasks, triggers, report, env, probe, users, users_file, oauth_states>>

\* ------------------------------------------------------------------------
\* Time passes
\* ------------------------------------------------------------------------
\* The idle time is read at lines 44 and 781 only, both times of a session
\* that is recording, and every write that makes a session recording sets
\* last_activity_at: the clock is followed for recording sessions only.
Elapse(store) ==
  [i \in 1..Len(store) |->
     IF store[i].issue_mode = "recording"
       THEN [store[i] EXCEPT !.idle =
               IF @ + TickStep > IDLE_TIMEOUT THEN IDLE_TIMEOUT + 1 ELSE @ + TickStep]
       ELSE store[i]]

Tick ==
  /\ event = NoEvent
  /\ Elapse(sessions) # sessions
  /\ sessions' = Elapse(sessions)
  /\ UNCHANGED <<tasks, sweeper, triggers, report, admitted, finalized, swept, event, env, probe, users, users_file, oauth_states>>

\* ------------------------------------------------------------------------
\* The record of a step describes that step only: it is dropped before the
\* next step is taken
\* ------------------------------------------------------------------------
Forget ==
  /\ event # NoEvent
  /\ event' = NoEvent
  /\ UNCHANGED <<sessions, tasks, sweeper, triggers, report, admitted, finalized, swept, env, probe, users, users_file, oauth_states>>

\* ------------------------------------------------------------------------
Next ==
  \/ \E session_id \in SessionIds, segments \in Batches : Webhook(session_id, segments)
  \/ \E t \in BagToSet(tasks), reply \in ClassifierReplies \cup {Raise} :
       ClassifierReturn(t, reply)
  \/ \E t \in BagToSet(tasks), run \in FinalizerRuns :
       FinalizerReturn(t, run[1], run[2])
  \/ \E t \in BagToSet(tasks), run \in FinalizerRuns :
       TestGenerateReturn(t, run[1], run[2])
  \/ SweeperTick
  \/ \E run \in FinalizerRuns :
       SweeperReturn(run[1], run[2])
  \/ Tick
  \/ Forget

Spec == Init /\ [][Next]_vars

\* ------------------------------------------------------------------------
\* Payloads without a usable segment list (main.py 617-653, 682-684)
\* ------------------------------------------------------------------------
\* A JSON value found under "segments": its type and, for a list, its
\* items. Strings, numbers and objects stand for non-empty, non-zero ones.
\* An item is an object or a string; an object's "text" is missing, a
\* string, or something else (a number, null).
Seg(kind, text_kind, text) == [kind |-> kind, text_kind |-> text_kind, text |-> text]
SegmentsValue(kind, items) == [kind |-> kind, items |-> items]

NoSegmentsKey == SegmentsValue("missing", <<>>)
EmptyList == SegmentsValue("list", <<>>)
StringValue == SegmentsValue("string", <<>>)
NumberValue == SegmentsValue("number", <<>>)
ObjectValue == SegmentsValue("object", <<>>)
StringItems == SegmentsValue("list", <<Seg("string", "missing", <<>>)>>)
OtherText == SegmentsValue("list", <<Seg("object", "other", <<>>)>>)
NoText == SegmentsValue("list", <<Seg("object", "missing", <<>>)>>)

Payloads ==
  { NoSegmentsKey, EmptyList, StringValue, NumberValue, ObjectValue,
    StringItems, OtherText, NoText }

\* line 626: payload.get("segments", [])
segments_of(payload) == IF payload.kind = "missing" THEN EmptyList ELSE payload

\* bool(segments)
Truthy(segments) ==
  \/ segments.kind \in {"string", "number", "object"}
  \/ segments.kind = "list" /\ segments.items # <<>>

\* lines 634-637: the first three segments are logged; segments[:3] needs a
\* list or a string, text[:100] needs a text that can be sliced
LogRaises(segments) ==
  /\ Truthy(segments)
  /\ \/ segments.kind \in {"number", "object"}
     \/ /\ segments.kind = "list"
        /\ \E i \in 1..Len(segments.items) :
             /\ i <= 3
             /\ segments.items[i].kind = "object"
             /\ segments.items[i].text_kind = "other"

\* lines 683-684: seg.get needs an object, " ".join needs strings
ExtractRaises(segments) ==
  \E i \in 1..Len(segments.items) :
     \/ segments.items[i].kind # "object"
     \/ segments.items[i].text_kind = "other"

\* line 683: seg.get("text", "")
segment_texts(segments) ==
  [i \in 1..Len(segments.items) |->
     IF segments.items[i].text_kind = "string" THEN segments.items[i].text ELSE <<>>]

\* a request that returns or raises without reaching the trigger check
Unprocessed(session_id, store, kind) ==
  /\ event = NoEvent
  /\ users[uid_of(session_id)].access_token # ""
  /\ users[uid_of(session_id)].selected_repo # ""
  /\ session_id \in env.clients
  /\ sessions' = store
  /\ event' = Event("webhook", session_id, Status(kind, 0), <<>>, FALSE)
  /\ UNCHANGED <<tasks, sweeper, triggers, report, admitted, finalized, swept, env, probe, users, users_file, oauth_states>>

\* webhook called with a payload of Payloads
WebhookPayload(session_id, payload) ==
  LET segments == segments_of(payload)
  IN  IF LogRaises(segments)
        THEN Unprocessed(session_id, sessions, "error")
      ELSE IF ~Truthy(segments) \/ segments.kind # "list"
        THEN Unprocessed(session_id, sessions, "no_segments")
      ELSE IF ExtractRaises(segments)
        THEN Unprocessed(session_id,
                         get_or_create_session(sessions, session_id, uid_of(session_id)),
                         "error")
      ELSE Webhook(session_id, segment_texts(segments))

\* a device that also sends payloads of Payloads; the batch whose one
\* segment has no text is what line 683 makes of NoText
InitPayload ==
  /\ InitState
  /\ env \in {[clients |-> {d[1]}, batches |-> {d[2]} \cup EmptyBatches,
               inflight |-> MaxInflight - 1, triggers |-> MaxTriggers] :
                d \in { <<"omi_session_u1", <<TextFileBug, TextX>>>>,
                        <<"test_session_1", <<TextReport>>>> }}

PayloadNext ==
  \/ Next
  \/ \E session_id \in SessionIds, payload \in Payloads :
       WebhookPayload(session_id, payload)

PayloadSpec == InitPayload /\ [][PayloadNext]_vars

\* ------------------------------------------------------------------------
\* The user store (simple_storage.py) and the endpoints that write it
\* ------------------------------------------------------------------------
Uids == {"u1", "u2"}
Repos == {"owner/repo", "owner/other"}
\* the repository lists the tracker returns to the OAuth callback
RepoLists == { <<>>, <<"owner/repo">> }
\* whether USERS_FILE can be written
Disk == {"writable", "failing"}

\* the repository lists the tracker returns to refresh-repos
FetchedLists == RepoLists \cup { <<"owner/other", "owner/repo">> }
\* the login the tracker returns for a token
Login == "octocat"
\* secrets.token_urlsafe(32): the states auth start can draw
OAuthStates == 1..MaxStates
\* the uids auth start is called for: the user who is not set up yet, and
\* the empty string the uid parameter may be
AuthUids == {"u2", ""}

\* save_users: the dict is written to the file; a failure is printed
save_users(store, file, disk) == IF disk = "writable" THEN store ELSE file

Touched(store, uid) ==
  IF uid \in DOMAIN store THEN store[uid].updated_at + 1 ELSE 1

\* a value that was not given (None); available_repos is a list or None
NotGiven == <<"None">>

\* save_user replacing available_repos only by a non-empty list
save_user_KeepsRepos(store, uid, access_token, github_username, selected_repo, available_repos) ==
  LET known == uid \in DOMAIN store
      rec == UserRecord(access_token,
                        IF github_username # "" THEN github_username
                        ELSE IF known THEN store[uid].github_username ELSE "",
                        IF selected_repo # "" THEN selected_repo
                        ELSE IF known THEN store[uid].selected_repo ELSE "",
                        IF available_repos \notin {NotGiven, <<>>} THEN available_repos
                        ELSE IF known THEN store[uid].available_repos ELSE NotGiven,
                        Touched(store, uid))
  IN  [u \in DOMAIN store \cup {uid} |-> IF u = uid THEN rec ELSE store[u]]

\* save_user, lines 63-79: the record is created if missing, the token is
\* set, the other fields only when a value is given
save_user(store, uid, access_token, github_username, selected_repo, available_repos) ==
  LET known == uid \in DOMAIN store
      rec == UserRecord(access_token,
                        IF github_username # "" THEN github_username
                        ELSE IF known THEN store[uid].github_username ELSE "",
                        IF selected_repo # "" THEN selected_repo
                        ELSE IF known THEN store[uid].selected_repo ELSE "",
                        IF available_repos # NotGiven THEN available_repos
                        ELSE IF known THEN store[uid].available_repos ELSE NotGiven,
                        Touched(store, uid))
  IN  [u \in DOMAIN store \cup {uid} |-> IF u = uid THEN rec ELSE store[u]]

\* update_repo_selection creating the record of an unknown uid
update_repo_selection_Upsert(store, uid, selected_repo) ==
  [users |-> [u \in DOMAIN store \cup {uid} |->
                IF u = uid
                  THEN IF uid \in DOMAIN store
                         THEN [store[uid] EXCEPT !.selected_repo = selected_repo,
                                                 !.updated_at = @ + 1]
                         ELSE UserRecord("", "", selected_repo, NotGiven, 1)
                  ELSE store[u]],
   saved |-> TRUE, success |-> TRUE]

\* update_repo_selection, lines 84-93
update_repo_selection(store, uid, selected_repo) ==
  IF uid \in DOMAIN store
    THEN [users |-> [store EXCEPT ![uid].selected_repo = selected_repo,
                                  ![uid].updated_at = @ + 1],
          saved |-> TRUE, success |-> TRUE]
    ELSE [users |-> store, saved |-> FALSE, success |-> FALSE]

\* a step of one of the settings endpoints: the stores it leaves and its answer
Settings(op, store, file, pending, status) ==
  /\ event = NoEvent
  /\ users' = store
  /\ users_file' = file
  /\ oauth_states' = pending
  /\ event' = Event(op, "", status, <<>>, FALSE)
  /\ UNCHANGED <<sessions, tasks, sweeper, triggers, report, admitted, finalized,
                 swept, env, probe>>

\* POST /update-repo (main.py 541-554)
update_repo(uid, repo, disk) ==
  LET out == update_repo_selection(users, uid, repo)
  IN  /\ Touched(users, uid) <= MaxUpdates
      /\ Settings("update_repo", out.users,
                  IF out.saved THEN save_users(out.users, users_file, disk) ELSE users_file,
                  oauth_states,
                  Status(IF out.success THEN "repo_updated" ELSE "user_not_found", 0))

\* user.get("access_token") is missing or None
Authenticated(store, uid) == uid \in DOMAIN store /\ store[uid].access_token # ""

\* POST /refresh-repos (main.py 557-579); fetched is the list the tracker
\* returns, or Raise
refresh_repos(uid, fetched, disk) ==
  IF ~Authenticated(users, uid)
    THEN Settings("refresh_repos", users, users_file, oauth_states,
                  Status("not_authenticated", 0))
  ELSE IF fetched = Raise
    THEN Settings("refresh_repos", users, users_file, oauth_states,
                  Status("refresh_failed", 0))
  ELSE LET user == users[uid]
           saved == save_user(users, uid, user.access_token, user.github_username,
                              user.selected_repo, fetched)
       IN  /\ Touched(users, uid) <= MaxUpdates
           /\ Settings("refresh_repos", saved, save_users(saved, users_file, disk),
                       oauth_states, Status("repos_refreshed", Len(fetched)))

\* oauth_states.get(state): the uid of a pending state, None if there is none
PendingUid(pending, state) ==
  IF \E p \in pending : p[1] = state
    THEN (CHOOSE p \in pending : p[1] = state)[2]
    ELSE ""

\* GET /auth (main.py 390-407): a fresh state is stored for the uid, then
\* the authorization url is built; a failure there is answered 500 and the
\* state stays
auth_start(uid, state, url) ==
  /\ PendingUid(oauth_states, state) = "" /\ \A p \in oauth_states : p[1] # state
  /\ Settings("auth_start", users, users_file, oauth_states \cup {<<state, uid>>},
              Status(IF url = "raise" THEN "auth_start_failed" ELSE "redirect", 0))

\* auth_callback removing the state before it looks at the code
auth_callback_Cleans(code, state, exchange, repos, disk) ==
  LET uid == PendingUid(oauth_states, state)
      saved == save_user(users, uid, exchange, Login,
                         IF repos # <<>> THEN Head(repos) ELSE "", repos)
  IN  IF code = "" \/ state = 0
        THEN Settings("auth_callback", users, users_file,
                      {p \in oauth_states : p[1] # state},
                      Status("authentication_failed", 400))
      ELSE IF uid = ""
        THEN Settings("auth_callback", users, users_file, oauth_states,
                      Status("invalid_state", 400))
      ELSE IF exchange = "raise"
        THEN Settings("auth_callback", users, users_file, oauth_states,
                      Status("connection_failed", 500))
      ELSE /\ Touched(users, uid) <= MaxUpdates
           /\ Settings("auth_callback", saved, save_users(saved, users_file, disk),
                       {p \in oauth_states : p[1] # state},
                       Status("connected", 200))

\* GET /auth/callback (main.py 410-527). code and state are "" when the
\* query lacks them; exchange is what the token exchange and the two
\* tracker reads do: they raise, or they go through with the access_token
\* of the token data, "" when it has none
auth_callback(code, state, exchange, repos, disk) ==
  LET uid == PendingUid(oauth_states, state)
      saved == save_user(users, uid, exchange, Login,
                         IF repos # <<>> THEN Head(repos) ELSE "", repos)
  IN  IF code = "" \/ state = 0
        THEN Settings("auth_callback", users, users_file, oauth_states,
                      Status("authentication_failed", 400))
      ELSE IF uid = ""
        THEN Settings("auth_callback", users, users_file, oauth_states,
                      Status("invalid_state", 400))
      ELSE IF exchange = "raise"
        THEN Settings("auth_callback", users, users_file, oauth_states,
                      Status("connection_failed", 500))
      ELSE /\ Touched(users, uid) <= MaxUpdates
           /\ Settings("auth_callback", saved, save_users(saved, users_file, disk),
                       {p \in oauth_states : p[1] # state},
                       Status("connected", 200))

\* the settings pages in use, no device sending
InitUsers ==
  /\ InitState
  /\ env = [clients |-> {}, batches |-> {}, inflight |-> 0, triggers |-> 0]

UsersNext ==
  \/ \E uid \in Uids, repo \in Repos, disk \in Disk : update_repo(uid, repo, disk)
  \/ \E uid \in Uids, fetched \in FetchedLists \cup {Raise}, disk \in Disk :
       refresh_repos(uid, fetched, disk)
  \/ \E uid \in AuthUids, state \in OAuthStates, url \in {"url", "raise"} :
       auth_start(uid, state, url)
  \/ \E code \in {"", "code"}, state \in {0} \cup OAuthStates,
        exchange \in {"token", "", "raise"}, repos \in RepoLists, disk \in Disk :
       auth_callback(code, state, exchange, repos, disk)
  \/ Forget

UsersSpec == InitUsers /\ [][UsersNext]_vars

\* two devices in one run: a live session and a test session; a trigger
\* batch with a content of at most TEST_MODE_LEN characters starts a
\* collection in either, the long one is processed inline by the test
\* session; one request fewer may be suspended at once than with one device
InitPair ==
  /\ InitState
  /\ env = [clients |-> SessionIds,
            batches |-> {<<TextFileBug, TextX>>, <<TextReport>>} \cup PlainBatches,
            inflight |-> MaxInflight - 1, triggers |-> MaxTriggers]

PairSpec == InitPair /\ [][Next]_vars

\* ------------------------------------------------------------------------
\* The session a webhook request addresses (main.py 592-594, 623-647)
\* ------------------------------------------------------------------------
\* f"omi_session_{uid}"
DefaultSession(uid) == "omi_session_" \o uid

\* session_id as webhook settles it: query is the session_id parameter, ""
\* when it is not sent; payload_sid the session_id of the JSON object, ""
\* when it has none
session_id_of(uid, query, payload_sid) ==
  LET first == IF query = "" THEN DefaultSession(uid) ELSE query
      second == IF first = "" /\ payload_sid # "" THEN payload_sid ELSE first
  IN  IF second = "" THEN DefaultSession(uid) ELSE second

\* webhook called by user u1 with or without either session id
WebhookAddressed(query, payload_sid, segments) ==
  Webhook(session_id_of("u1", query, payload_sid), segments)

\* one user whose requests name the test session in the query, in the
\* payload, in both or in neither
AddressedNext ==
  \/ \E query \in {"", "test_session_1"}, payload_sid \in {"", "test_session_1"},
        segments \in Batches :
       WebhookAddressed(query, payload_sid, segments)
  \/ Next

AddressedSpec == InitPair /\ [][AddressedNext]_vars

\* ------------------------------------------------------------------------
\* Requests of users who are not set up (main.py 592-615)
\* ------------------------------------------------------------------------
\* webhook returning at line 600 or 609: the request of uid is answered
\* before the body is read and before line 647 looks the session up
WebhookRefused(uid, query) ==
  /\ event = NoEvent
  /\ Refusal(users, uid) # 0
  /\ event' = Event("webhook", session_id_of(uid, query, ""),
                    Status("setup_required", Refusal(users, uid)), <<>>, FALSE)
  /\ UNCHANGED <<sessions, tasks, sweeper, triggers, report, admitted, finalized,
                 swept, env, probe, users, users_file, oauth_states>>

\* a device of u1 sends, one request in flight and one trigger at most,
\* while u1 and u2 connect again and again; a request may name the live
\* session of u1 whoever sends it
InitRefused ==
  /\ InitState
  /\ env \in {[clients |-> {"omi_session_u1"},
               batches |-> {<<TextNewIssue>>} \cup PlainBatches,
               inflight |-> 1, triggers |-> 1],
              [clients |-> {"test_session_1"},
               batches |-> {<<TextReport>>} \cup PlainBatches,
               inflight |-> 1, triggers |-> 1]}

RefusedNext ==
  \/ \E uid \in Uids, query \in {"", "omi_session_u1"} : WebhookRefused(uid, query)
  \/ \E uid \in Uids : auth_start(uid, 1, "url")
  \/ \E exchange \in {"token", ""}, repos \in RepoLists :
       auth_callback("code", 1, exchange, repos, "writable")
  \/ Next

RefusedSpec == InitRefused /\ [][RefusedNext]_vars

\* one device per run whose user speaks the trigger batch once more than
\* MaxTriggers times: a live session with the short content, or a test
\* session with the long one
InitRepeat ==
  /\ InitState
  /\ env \in {[clients |-> {"omi_session_u1"},
               batches |-> {<<TextFileBug, TextX>>} \cup PlainBatches,
               inflight |-> MaxInflight, triggers |-> MaxTriggers + 1],
              [clients |-> {"test_session_1"},
               batches |-> {<<TextReport>>} \cup PlainBatches,
               inflight |-> MaxInflight, triggers |-> MaxTriggers + 1]}

RepeatSpec == InitRepeat /\ [][Next]_vars

\* the same devices with one request fewer suspended at once
InitRetrigger ==
  /\ InitState
  /\ env \in {[clients |-> {"omi_session_u1"},
               batches |-> {<<TextFileBug, TextX>>} \cup PlainBatches,
               inflight |-> MaxInflight - 1, triggers |-> MaxTriggers + 1],
              [clients |-> {"test_session_1"},
               batches |-> {<<TextReport>>} \cup PlainBatches,
               inflight |-> MaxInflight - 1, triggers |-> MaxTriggers + 1]}

RetriggerSpec == InitRetrigger /\ [][Next]_vars

\* ------------------------------------------------------------------------
\* The trigger detector on its own: a text is spoken word by word and
\* detect_trigger and extract_issue_content are applied to it
\* ------------------------------------------------------------------------
Say(lead, word) ==
  LET text == probe.text \o lead \o word
  IN  /\ probe.words < MaxWords
      /\ lead = <<>> => probe.words = 0
      /\ probe' = [words |-> probe.words + 1, text |-> text,
                   detected |-> detect_trigger(text),
                   content |-> extract_issue_content(text)]
      /\ UNCHANGED <<sessions, tasks, sweeper, triggers, report, admitted,
                     finalized, swept, event, env, users, users_file, oauth_states>>

DetectorInit ==
  /\ InitState
  /\ env = [clients |-> {}, batches |-> {}, inflight |-> 0, triggers |-> 0]

DetectorNext == \E lead \in Leads, word \in Words : Say(lead, word)

DetectorSpec == DetectorInit /\ [][DetectorNext]_vars

TypeOK ==
  /\ \A i \in 1..Len(sessions) :
       /\ sessions[i].issue_mode \in {"idle", "recording", "processing"}
       /\ sessions[i].segments_count \in Nat
       /\ sessions[i].idle \in 0..(IDLE_TIMEOUT + 1)
  /\ \A t \in BagToSet(tasks) : t.pc \in {"classifier", "finalizer", "test_generate"}
  /\ BagCardinality(tasks) <= MaxInflight
  /\ sweeper.pc \in {"sleep", "finalizer"}
  /\ triggers \in [SessionIds -> 0..(MaxTriggers + 1)]
  /\ swept \subseteq SessionIds

\* The sweeper task keeps running and every awaited collaborator call
\* eventually returns or raises; requests arrive when they arrive. A step
\* is held back only until the record of the previous step is dropped, so
\* a return that is due is enabled again and again: the fairness is strong.
FairSpec ==
  /\ Spec
  /\ WF_vars(Forget)
  /\ SF_vars(\E t \in BagToSet(tasks), reply \in ClassifierReplies \cup {Raise} :
               ClassifierReturn(t, reply))
  /\ SF_vars(\E t \in BagToSet(tasks), run \in FinalizerRuns :
               FinalizerReturn(t, run[1], run[2]))
  /\ SF_vars(\E t \in BagToSet(tasks), run \in FinalizerRuns :
               TestGenerateReturn(t, run[1], run[2]))
  /\ SF_vars(SweeperTick)
  /\ SF_vars(\E run \in FinalizerRuns : SweeperReturn(run[1], run[2]))

\* Only the sweeper task is fair: it wakes up after every sleep and its
\* awaited process_issue_creation returns or raises.
SweeperFairSpec ==
  /\ Spec
  /\ WF_vars(Forget)
  /\ SF_vars(SweeperTick)
  /\ SF_vars(\E run \in FinalizerRuns : SweeperReturn(run[1], run[2]))

\* Two devices whose users speak a trigger with a short content, so that
\* both sessions collect and one tick can find both stalled
InitSweptPair ==
  /\ InitState
  /\ env = [clients |-> SessionIds,
            batches |-> {<<TextFileBug, TextX>>} \cup PlainBatches,
            inflight |-> MaxInflight - 1, triggers |-> MaxTriggers]

\* Next without the immediate processing of a test session, which a short
\* content never starts
SweptPairNext ==
  \/ \E session_id \in SessionIds, segments \in Batches : Webhook(session_id, segments)
  \/ \E t \in BagToSet(tasks), reply \in ClassifierReplies \cup {Raise} :
       ClassifierReturn(t, reply)
  \/ \E t \in BagToSet(tasks), run \in FinalizerRuns :
       FinalizerReturn(t, run[1], run[2])
  \/ SweeperTick
  \/ \E run \in FinalizerRuns :
       SweeperReturn(run[1], run[2])
  \/ Tick
  \/ Forget

\* the sweeper task is fair: whatever its position, its next step is taken
SweeperPairSpec ==
  /\ InitSweptPair /\ [][SweptPairNext]_vars
  /\ WF_vars(Forget)
  /\ SF_vars(SweeperTick \/ \E run \in FinalizerRuns : SweeperReturn(run[1], run[2]))

\* ------------------------------------------------------------------------
\* Reading the state
\* ------------------------------------------------------------------------
\* a session id without a session yet is created idle and empty on first use
ModeOf(store, s) == IF Has(store, s) THEN Get(store, s).issue_mode ELSE "idle"
TextOf(store, s) == IF Has(store, s) THEN Get(store, s).accumulated_text ELSE <<>>
CountOf(store, s) == IF Has(store, s) THEN Get(store, s).segments_count ELSE 0
IdleOf(store, s) == IF Has(store, s) THEN Get(store, s).idle ELSE 0

\* the requests suspended at position pc for session s
InFlight(pc, s) ==
  {t \in BagToSet(tasks) : t.pc = pc /\ t.session_id = s}

\* how many paths are suspended inside process_issue_creation for session s
FinalizersInFlight(s) ==
  BagCardinality([t \in InFlight("finalizer", s) |-> tasks[t]])
  + (IF sweeper.pc = "finalizer" /\ Head(sweeper.idle_sessions).session_id = s
       THEN 1 ELSE 0)

\* how many live batches are suspended in the completeness check for session s
ClassifiersInFlight(s) ==
  BagCardinality([t \in InFlight("classifier", s) |-> tasks[t]])

\* the last step called process_issue_creation
FinalizerStarted == event.status.kind = "awaiting_finalizer"

\* the text the last step handed to process_issue_creation
HandedTexts ==
  IF event.op \in {"sweeper_tick", "sweeper_return"}
    THEN {Head(sweeper.idle_sessions).accumulated}
    ELSE {t.accumulated : t \in InFlight("finalizer", event.session_id)}

\* ------------------------------------------------------------------------
\* Claims
\* ------------------------------------------------------------------------

\* C1: at any time at most one Finalizer invocation (process_issue_creation)
\* is in flight per session, and no collected report is handed to the
\* Finalizer twice.
C1_SingleFinalizer ==
  /\ \A s \in SessionIds : FinalizersInFlight(s) <= 1
  /\ ~event.again

\* C2: every session that enters Finalizing (issue_mode = processing)
\* eventually is Idle again with accumulated_text and fragment_count cleared.
C2_FinalizingEnds ==
  \A s \in SessionIds :
    (ModeOf(sessions, s) = "processing")
      ~> (ModeOf(sessions, s) = "idle" /\ TextOf(sessions, s) = <<>>
          /\ CountOf(sessions, s) = 0)

\* C3: while a live batch is suspended in the classifier call for a session,
\* or any path is suspended in the Finalizer for it, no other live batch and
\* no sweeper tick changes the mode, text or count of that session.
C3_OneTransitionInFlight ==
  [][\A s \in SessionIds :
       (FinalizersInFlight(s) + ClassifiersInFlight(s) > 0
        /\ event'.op \in {"webhook", "sweeper_tick"} /\ event'.session_id = s)
       => /\ ModeOf(sessions', s) = ModeOf(sessions, s)
          /\ TextOf(sessions', s) = TextOf(sessions, s)
          /\ CountOf(sessions', s) = CountOf(sessions, s)]_vars

\* C4: in every reachable state an Idle session has accumulated_text = ""
\* and fragment_count = 0.
C4_IdleIsEmpty ==
  \A i \in 1..Len(sessions) :
    sessions[i].issue_mode = "idle"
      => sessions[i].accumulated_text = <<>> /\ sessions[i].segments_count = 0

\* C4 witness: a session that collected a report is Idle again
C4_Witness ==
  \E i \in 1..Len(sessions) :
    /\ sessions[i].issue_mode = "idle"
    /\ report[sessions[i].session_id] > 0
    /\ event.op \in {"finalizer_return", "classifier_return", "sweeper_return"}

\* a live batch for session s was handled in this step
WebhookOn(s) == event'.op = "webhook" /\ event'.session_id = s

\* extract_issue_content(text) or text
Seed(text) ==
  IF extract_issue_content(text) # None THEN extract_issue_content(text) ELSE text

\* what C5 says a trigger batch does to an Idle session s
TriggerStarts(s) ==
  /\ ModeOf(sessions', s) = "recording"
  /\ CountOf(sessions', s) = 1
  /\ TextOf(sessions', s) = Seed(event'.full_text)
  /\ event'.status = Status("collecting", 1)
  /\ tasks' = tasks /\ ~FinalizerStarted'

\* C5 as stated: for every Idle session, whatever its id, a batch with a
\* trigger phrase makes it Collecting with count 1 and the extracted content
\* (or the full text) as accumulated_text, status collecting_1, no Finalizer.
C5_Original ==
  [][\A s \in SessionIds :
       (WebhookOn(s) /\ ModeOf(sessions, s) = "idle" /\ detect_trigger(event'.full_text))
       => TriggerStarts(s)]_vars

\* C5 amended: the same, for every Idle session whose id does not start
\* with "test_session".
C5_TriggerStartsCollecting ==
  [][\A s \in SessionIds :
       (WebhookOn(s) /\ ~is_test_session(s) /\ ModeOf(sessions, s) = "idle"
        /\ detect_trigger(event'.full_text))
       => TriggerStarts(s)]_vars

\* C5 witness: a trigger batch has just started a collection
C5_Witness ==
  /\ event.op = "webhook" /\ ~is_test_session(event.session_id)
  /\ detect_trigger(event.full_text)
  /\ event.status = Status("collecting", 1)
  /\ ModeOf(sessions, event.session_id) = "recording"

\* C6: a batch without a trigger phrase for an Idle session leaves the
\* session Idle, empty and at count 0, and returns listening.
C6_NoTriggerNoChange ==
  [][\A s \in SessionIds :
       (WebhookOn(s) /\ ModeOf(sessions, s) = "idle" /\ ~detect_trigger(event'.full_text))
       => /\ ModeOf(sessions', s) = "idle"
          /\ TextOf(sessions', s) = TextOf(sessions, s) /\ TextOf(sessions', s) = <<>>
          /\ CountOf(sessions', s) = CountOf(sessions, s) /\ CountOf(sessions', s) = 0
          /\ event'.status = Status("listening", 0)]_vars

\* C6 witness: a plain batch was answered listening by an Idle session
C6_Witness ==
  /\ event.op = "webhook" /\ event.status = Status("listening", 0)
  /\ ~detect_trigger(event.full_text)
  /\ ModeOf(sessions, event.session_id) = "idle"

\* the batch text was appended after one space and the count went up by one
BatchAppended(s) ==
  /\ TextOf(sessions', s) = TextOf(sessions, s) \o <<" ">> \o event'.full_text
  /\ CountOf(sessions', s) = CountOf(sessions, s) + 1

\* the session had been silent for more than IDLE_TIMEOUT with enough segments
Silent(store, s) ==
  IdleOf(store, s) > IDLE_TIMEOUT /\ CountOf(store, s) >= MIN_SEGMENTS

\* C7 as stated: every live batch that reaches a Collecting session is
\* appended after a single space and raises fragment_count by one.
C7_Original ==
  [][\A s \in SessionIds :
       (WebhookOn(s) /\ ModeOf(sessions, s) = "recording") => BatchAppended(s)]_vars

\* C7 amended: every live batch that reaches a Collecting session is appended
\* after a single space and raises fragment_count by one, unless the session
\* has been idle for more than IDLE_TIMEOUT with at least MIN_FRAGMENTS
\* fragments; then the batch is not appended and the count does not change.
C7_BatchAppended ==
  [][\A s \in SessionIds :
       (WebhookOn(s) /\ ModeOf(sessions, s) = "recording")
       => IF Silent(sessions, s)
            THEN /\ TextOf(sessions', s) = TextOf(sessions, s)
                 /\ CountOf(sessions', s) = CountOf(sessions, s)
            ELSE BatchAppended(s)]_vars

\* C7 witness: a batch was appended in the step that went on to the classifier
C7_Witness ==
  /\ event.op = "webhook" /\ event.status.kind = "awaiting_classifier"
  /\ ClassifiersInFlight(event.session_id) = 1
  /\ CountOf(sessions, event.session_id) >= GOOD_SEGMENTS

\* C8: the accumulated_text of a non-Idle session is the seed followed by all
\* batches admitted since the trigger, in order, and a Finalizer started for
\* the session is handed exactly that text.
C8_NoFragmentLost ==
  /\ \A s \in SessionIds :
       ModeOf(sessions, s) # "idle" => TextOf(sessions, s) = join(admitted[s])
  /\ (FinalizerStarted /\ ModeOf(sessions, event.session_id) = "processing")
       => HandedTexts = {join(admitted[event.session_id])}

\* C9: fragment_count changes only by +1 for a batch admitted while
\* Collecting, by the trigger setting it to 1, or by the reset to 0 at the
\* step where the session becomes Idle; and becoming Idle resets it.
C9_CountSteps ==
  [][\A s \in SessionIds :
       /\ CountOf(sessions', s) # CountOf(sessions, s)
            => \/ /\ WebhookOn(s) /\ ModeOf(sessions, s) = "recording"
                  /\ CountOf(sessions', s) = CountOf(sessions, s) + 1
               \/ /\ WebhookOn(s) /\ ModeOf(sessions, s) = "idle"
                  /\ ModeOf(sessions', s) = "recording" /\ CountOf(sessions', s) = 1
               \/ /\ CountOf(sessions', s) = 0 /\ ModeOf(sessions', s) = "idle"
       /\ (ModeOf(sessions, s) # "idle" /\ ModeOf(sessions', s) = "idle")
            => CountOf(sessions', s) = 0]_vars

\* C10: when the count after admitting a live batch is below TARGET_FRAGMENTS
\* (5), the session stays Collecting, the status is collecting_<n> with the
\* new count, and neither classifier nor Finalizer is called in that step.
C10_BaselineWindow ==
  [][\A s \in SessionIds :
       (WebhookOn(s) /\ ModeOf(sessions, s) = "recording"
        /\ CountOf(sessions', s) = CountOf(sessions, s) + 1
        /\ CountOf(sessions', s) < GOOD_SEGMENTS)
       => /\ ModeOf(sessions', s) = "recording"
          /\ event'.status = Status("collecting", CountOf(sessions', s))
          /\ tasks' = tasks /\ sweeper' = sweeper]_vars

\* C10 witness: a batch was admitted as fragment 4
C10_Witness ==
  /\ event.op = "webhook"
  /\ event.status = Status("collecting", GOOD_SEGMENTS - 1)
  /\ CountOf(sessions, event.session_id) = GOOD_SEGMENTS - 1

\* the last step handed the session's stored text to process_issue_creation
\* and left the session Finalizing
Finalizing(s) ==
  /\ ModeOf(sessions, s) = "processing"
  /\ FinalizerStarted /\ event.session_id = s
  /\ TextOf(sessions, s) \in HandedTexts

\* C11: when the count after admitting a live batch reaches MAX_FRAGMENTS
\* (10), the session is finalized in that step and the completeness
\* classifier is not consulted.
C11_ForcedAtMax ==
  [][\A s \in SessionIds :
       (WebhookOn(s) /\ ModeOf(sessions, s) = "recording"
        /\ CountOf(sessions', s) = CountOf(sessions, s) + 1
        /\ CountOf(sessions', s) >= MAX_SEGMENTS)
       => /\ Finalizing(s)'
          /\ TextOf(sessions', s) = TextOf(sessions, s) \o <<" ">> \o event'.full_text
          /\ ClassifiersInFlight(s)' = ClassifiersInFlight(s)
          /\ FinalizersInFlight(s)' = FinalizersInFlight(s) + 1]_vars

\* C11 witness: the tenth fragment has just been admitted and the Finalizer
\* started
C11_Witness ==
  /\ event.op = "webhook" /\ FinalizerStarted
  /\ CountOf(sessions, event.session_id) = MAX_SEGMENTS
  /\ ModeOf(sessions, event.session_id) = "processing"

\* what the completeness model answered, in the format its prompt asks for
SaysComplete(reply) == reply # Raise /\ find(reply, NeedleComplete) # -1
SaysOnTopic(reply) == reply # Raise /\ find(reply, NeedleOnTopic) # -1

\* the completeness check of request t is answered with reply in this step,
\* for a session that is Collecting with 5..9 fragments
Answered(t, reply) ==
  /\ ClassifierReturn(t, reply)
  /\ ModeOf(sessions, t.session_id) = "recording"
  /\ CountOf(sessions, t.session_id) \in GOOD_SEGMENTS..(MAX_SEGMENTS - 1)

\* C12: when the classifier answers that the report is complete for a
\* session collecting fragment 5..9, the session becomes Finalizing and the
\* Finalizer is started, once, with the session's whole accumulated text.
C12_CompleteFinalizes ==
  [][\A t \in BagToSet(tasks), reply \in ClassifierReplies :
       (SaysComplete(reply) /\ Answered(t, reply))
       => /\ Finalizing(t.session_id)'
          /\ ~event'.again
          /\ FinalizersInFlight(t.session_id)' = 1]_vars

\* the trimmed accumulated text of the session is shorter than 15 characters
ShortText(store, s) == Len(strip(TextOf(store, s))) < DISCARD_LEN

\* nothing in flight can still hand the current report of s to the Finalizer
NoHolder(s) ==
  /\ finalized[s] < report[s]
  /\ \A t \in BagToSet(tasks) : t.session_id = s => t.report # report[s]
  /\ \A i \in 1..Len(sweeper.idle_sessions) :
       sweeper.idle_sessions[i].session_id = s
         => sweeper.idle_sessions[i].report # report[s]

\* C13: when the classifier answers not complete and off topic for a session
\* collecting fragment 5..9 whose trimmed text is shorter than 15 characters,
\* the session is reset to Idle, the status is discarded, and the Finalizer
\* is not started for that report, then or later.
C13_ShortOffTopicDiscarded ==
  [][\A t \in BagToSet(tasks), reply \in ClassifierReplies :
       (~SaysComplete(reply) /\ ~SaysOnTopic(reply) /\ Answered(t, reply)
        /\ ShortText(sessions, t.session_id))
       => /\ ModeOf(sessions', t.session_id) = "idle"
          /\ TextOf(sessions', t.session_id) = <<>>
          /\ CountOf(sessions', t.session_id) = 0
          /\ event'.status = Status("discarded", 0)
          /\ ~FinalizerStarted'
          /\ FinalizersInFlight(t.session_id)' = FinalizersInFlight(t.session_id)
          /\ NoHolder(t.session_id)']_vars

\* C14: when the classifier answers not complete and off topic for a session
\* collecting fragment 5..9 whose trimmed text has 15 or more characters, the
\* session is finalized in that step with its accumulated text.
C14_LongOffTopicFinalized ==
  [][\A t \in BagToSet(tasks), reply \in ClassifierReplies :
       (~SaysComplete(reply) /\ ~SaysOnTopic(reply) /\ Answered(t, reply)
        /\ ~ShortText(sessions, t.session_id))
       => /\ Finalizing(t.session_id)'
          /\ TextOf(sessions', t.session_id) = TextOf(sessions, t.session_id)
          /\ CountOf(sessions', t.session_id) = CountOf(sessions, t.session_id)]_vars

\* C15: when the classifier answers not complete and on topic for a session
\* collecting fragment 5..9, the session stays Collecting with its text and
\* count, the status is collecting_<n>, and no Finalizer is started.
C15_OnTopicKeepsCollecting ==
  [][\A t \in BagToSet(tasks), reply \in ClassifierReplies :
       (~SaysComplete(reply) /\ SaysOnTopic(reply) /\ Answered(t, reply))
       => /\ sessions' = sessions
          /\ event'.status = Status("collecting", t.segments_count)
          /\ ~FinalizerStarted'
          /\ FinalizersInFlight(t.session_id)' = FinalizersInFlight(t.session_id)]_vars

\* C16: when the classifier call fails for a session collecting fragment
\* 5..9, the session stays Collecting with its text and count, the status is
\* collecting_<n>, no Finalizer is started and the request does not fail.
C16_ClassifierFailureKeepsCollecting ==
  [][\A t \in BagToSet(tasks) :
       Answered(t, Raise)
       => /\ sessions' = sessions
          /\ event'.status = Status("collecting", t.segments_count)
          /\ ~FinalizerStarted'
          /\ FinalizersInFlight(t.session_id)' = FinalizersInFlight(t.session_id)]_vars

\* C16 witness: a completeness check has failed and the session collects on
C16_Witness ==
  /\ event.op = "classifier_return" /\ event.status.kind = "collecting"
  /\ ModeOf(sessions, event.session_id) = "recording"
  /\ CountOf(sessions, event.session_id) >= GOOD_SEGMENTS
  /\ TextOf(sessions, event.session_id) = join(admitted[event.session_id])

\* C17: a batch that arrives while the session is in processing is answered
\* processing and changes nothing: the session, the requests in flight and
\* the sweeper are as before, so the batch is kept nowhere and can reach no
\* Finalizer; and no step takes a session from processing to recording.
C17_DroppedWhileFinalizing ==
  [][\A s \in SessionIds :
       /\ (WebhookOn(s) /\ ModeOf(sessions, s) = "processing")
            => /\ event'.status = Status("processing", 0)
               /\ sessions' = sessions
               /\ tasks' = tasks /\ sweeper' = sweeper
               /\ admitted' = admitted /\ report' = report
               /\ finalized' = finalized
       /\ ModeOf(sessions, s) = "processing"
            => ModeOf(sessions', s) # "recording"]_vars

\* C17 witness: a trigger batch has just been answered processing
C17_Witness ==
  /\ event.op = "webhook" /\ event.status = Status("processing", 0)
  /\ detect_trigger(event.full_text)
  /\ ModeOf(sessions, event.session_id) = "processing"
  /\ FinalizersInFlight(event.session_id) >= 1

\* session s is Collecting with at least MIN_SEGMENTS fragments and has been
\* idle for more than IDLE_TIMEOUT
Stalled(s) ==
  /\ ModeOf(sessions, s) = "recording"
  /\ CountOf(sessions, s) >= MIN_SEGMENTS
  /\ IdleOf(sessions, s) > IDLE_TIMEOUT

\* a live request has acted on session s in the last step
LiveStep(s) ==
  /\ event.session_id = s
  /\ event.op \in {"webhook", "classifier_return", "finalizer_return"}

SweeperStartsOn(s) ==
  /\ event'.op \in {"sweeper_tick", "sweeper_return"}
  /\ FinalizerStarted' /\ event'.session_id = s

\* C19: whenever the sweeper marks a session processing and calls
\* process_issue_creation for it, the session is at that moment recording
\* with at least MIN_SEGMENTS fragments and idle for more than IDLE_TIMEOUT,
\* and the text passed is the session's current accumulated text.
C19_SweeperActsOnCurrentState ==
  [][\A s \in SessionIds :
       SweeperStartsOn(s)
       => /\ Stalled(s)
          /\ Head(sweeper'.idle_sessions).accumulated = TextOf(sessions, s)]_vars

\* session s is among the entries the sweeper still holds
Listed(sw, s) ==
  \E i \in 1..Len(sw.idle_sessions) : sw.idle_sessions[i].session_id = s

\* C20: a sweeper tick that follows the pass which finalized session s, with
\* no batch for s in between, finds s Idle with text and count cleared and
\* does nothing to it: s is not listed, not marked, and no
\* process_issue_creation is called for it again.
C20_SecondTickDoesNothing ==
  [][\A s \in SessionIds :
       (event'.op = "sweeper_tick" /\ s \in swept)
       => /\ ModeOf(sessions, s) = "idle"
          /\ TextOf(sessions, s) = <<>> /\ CountOf(sessions, s) = 0
          /\ ModeOf(sessions', s) = "idle"
          /\ ~Listed(sweeper', s)
          /\ ~SweeperStartsOn(s)
          /\ finalized'[s] = finalized[s]]_vars

\* a is an initial part of b
IsPrefix(a, b) == Len(a) <= Len(b) /\ SubSeq(b, 1, Len(a)) = a

\* b ends with a
IsSuffix(a, b) == Len(a) <= Len(b) /\ SubSeq(b, Len(b) - Len(a) + 1, Len(b)) = a

\* the requests of the current report of s that are suspended after having
\* admitted their batch
Admitted(s) ==
  {t \in InFlight("classifier", s) : t.report = report[s]}

\* C21: when a batch is admitted for a Collecting session while another
\* request of the same report is still suspended after its own admission,
\* the count read is the one the other request wrote: the count grows by
\* one again, passes the other request's count, and the text holds the other
\* request's text followed by the new batch; and no two suspended requests
\* of a report have written the same count.
C21_NoLostUpdate ==
  [][\A s \in SessionIds :
       /\ \A t \in Admitted(s) :
            (WebhookOn(s) /\ ModeOf(sessions, s) = "recording" /\ ~Silent(sessions, s))
            => /\ BatchAppended(s)
               /\ CountOf(sessions', s) > t.segments_count
               /\ IsPrefix(t.accumulated, TextOf(sessions', s))
               /\ IsSuffix(<<" ">> \o event'.full_text, TextOf(sessions', s))
       /\ \A t \in Admitted(s)' :
            /\ tasks'[t] = 1
            /\ \A u \in Admitted(s)' : u.segments_count = t.segments_count => u = t]_vars

\* C21 witness: two requests of one report are suspended after admission,
\* one fragment apart, and the session holds both batches
C21_Witness ==
  \E s \in SessionIds : \E t, u \in Admitted(s) :
    /\ u.segments_count = t.segments_count + 1
    /\ CountOf(sessions, s) = u.segments_count
    /\ TextOf(sessions, s) = u.accumulated
    /\ IsPrefix(t.accumulated, u.accumulated)
    /\ event.op = "webhook"

\* sub occurs somewhere in s
Contains(s, sub) == \E i \in 0..Len(s) : OccursAt(s, sub, i)

\* C22: for every text, detect_trigger answers true exactly when some phrase
\* of the trigger list occurs in the lowercased, trimmed text.
C22_DetectIffPhraseOccurs ==
  probe.detected
    <=> \E p \in 1..Len(TRIGGER_PHRASES) :
          Contains(strip(lower(probe.text)), TRIGGER_PHRASES[p])

\* C22 witness: a text with a capital letter and leading whitespace triggers
C22_Witness ==
  /\ probe.detected
  /\ Head(probe.text) \in Whitespace
  /\ lower(probe.text) # probe.text

\* every run of whitespace replaced by one space
RECURSIVE collapse(_)
collapse(s) ==
  IF s = <<>> THEN <<>>
  ELSE IF Head(s) \in Whitespace
    THEN <<" ">> \o collapse(lstrip(s))
  ELSE <<Head(s)>> \o collapse(Tail(s))

\* C23: a text triggers exactly when the same text with lower-case letters
\* and single spaces between its words does.
C23_CaseAndSpaceInsensitive ==
  probe.detected <=> detect_trigger(collapse(lower(probe.text)))

\* the phrase of lowest offset in the normalized text, the first of the list
\* among those of that offset (0: none occurs)
earliest_trigger(normalized) ==
  LET found == {p \in 1..Len(TRIGGER_PHRASES) : find(normalized, TRIGGER_PHRASES[p]) # -1}
      at(p) == find(normalized, TRIGGER_PHRASES[p])
      first == {p \in found : \A q \in found : at(p) <= at(q)}
  IN  IF found = {} THEN 0
      ELSE CHOOSE p \in first : \A q \in first : p <= q

\* the trimmed rest of text from the end of phrase p, found at offset
\* trigger_index of the normalized text, or None when nothing is left
ContentAfter(text, start_index) ==
  LET content == strip(sliceFrom(text, start_index))
  IN  IF content # <<>> THEN content ELSE None

\* C24: when phrases occur in a text, the phrase extract_issue_content
\* matches is the one of lowest offset, and the content returned is what
\* follows that phrase.
C24_EarliestPhraseWins ==
  LET normalized == normalize_text(probe.text)
      p == earliest_trigger(normalized)
  IN  probe.detected
        => /\ matched_trigger(normalized) = p
           /\ probe.content
                = ContentAfter(probe.text,
                               find(normalized, TRIGGER_PHRASES[p]) + Len(TRIGGER_PHRASES[p]))

\* number of whitespace characters at the start of the text
LeadingSpace(text) == Len(text) - Len(lstrip(text))

\* C25: for every text, extract_issue_content returns the trimmed original
\* text that follows the end of the matched phrase in the original text, and
\* None exactly when no phrase is found or nothing is left.
C25_ContentFollowsPhrase ==
  LET normalized == normalize_text(probe.text)
      p == matched_trigger(normalized)
  IN  probe.content
        = IF p = 0 THEN None
          ELSE ContentAfter(probe.text,
                            LeadingSpace(probe.text) + find(normalized, TRIGGER_PHRASES[p])
                              + Len(TRIGGER_PHRASES[p]))


\* ------------------------------------------------------------------------
\* C28: the webhook's answer never shows the state of the session: a batch
\* whose processing ends as listening, collecting_<n>, processing or
\* discarded is answered with exactly {status: ok}, and an answer that
\* carries a message and the session id is the answer to an issue created
\* or to an explicit failure.
\* ------------------------------------------------------------------------
Intermediate(status) ==
  status.kind \in {"listening", "collecting", "processing", "discarded"}

C28_SilentUnlessFinal ==
  LET response == Respond(event)
  IN  /\ response # NoResponse /\ Intermediate(event.status) => response = SilentOk
      /\ response.message # <<>> =>
           /\ event.status.kind \in {"created", "failed"}
           /\ response = Notification(response_message(event.status), event.session_id)

\* a request resumed by the completeness check is answered collecting_6,
\* and the caller receives {status: ok}
C28_Witness ==
  /\ event.op = "classifier_return"
  /\ event.status = Status("collecting", 6)
  /\ response_message(event.status) = MsgCollecting \o <<"6">>
  /\ Respond(event) = SilentOk


\* ------------------------------------------------------------------------
\* C29: when the generator rejects the accumulated text as not a valid
\* item, the outcome is a discard: the session is reset to idle, the tracker
\* is not called and no issue is created, and the caller is answered
\* {status: ok}, neither an error nor a failure message. The same holds for
\* the inline processing of a test session and for the sweeper, which has
\* no caller.
\* ------------------------------------------------------------------------
Rejected == <<"not_an_issue", "not_called">>

DiscardedSilently(s) ==
  /\ ModeOf(sessions', s) = "idle"
  /\ TextOf(sessions', s) = <<>> /\ CountOf(sessions', s) = 0
  /\ event'.status.kind \notin {"created", "failed", "error"}
  /\ Respond(event') = SilentOk

C29_RejectionIsDiscard ==
  [][/\ \A t \in BagToSet(tasks) :
          /\ FinalizerReturn(t, Rejected[1], Rejected[2]) => DiscardedSilently(t.session_id)
          /\ TestGenerateReturn(t, Rejected[1], Rejected[2]) => DiscardedSilently(t.session_id)
     /\ SweeperReturn(Rejected[1], Rejected[2]) =>
          /\ sweeper.idle_sessions # <<>>
          /\ ModeOf(sessions', Head(sweeper.idle_sessions).session_id) = "idle"
          /\ TextOf(sessions', Head(sweeper.idle_sessions).session_id) = <<>>]_vars

\* a live request whose generator call rejected the text has returned
C29_Witness ==
  /\ event.op = "finalizer_return"
  /\ event.status.kind = "not_valid"
  /\ Rejected \in FinalizerRuns
  /\ ModeOf(sessions, event.session_id) = "idle"
  /\ Respond(event) = SilentOk


\* ------------------------------------------------------------------------
\* C27: a failure of a collaborator (completeness check, generator, label
\* fetch, issue creation) while a live batch is handled is recovered
\* locally: the request is answered normally, never by an exception or an
\* error status.
\* ------------------------------------------------------------------------
LiveRequestEnds ==
  /\ event.op \in {"webhook", "classifier_return", "finalizer_return"}
  /\ ~is_test_session(event.session_id)
  /\ Respond(event) # NoResponse

C27_FailureRecovered ==
  LiveRequestEnds => Respond(event).http = 200


\* ------------------------------------------------------------------------
\* C26: a payload without a usable segment list (no segments key, an empty
\* list, a segments value that is not a list, items that are not objects
\* with a string text) is answered {status: ok} and neither creates nor
\* changes a session.
\* ------------------------------------------------------------------------
C26_MalformedIsNoOp ==
  [][\A session_id \in SessionIds, payload \in Payloads :
       WebhookPayload(session_id, payload) =>
         /\ Respond(event') = SilentOk
         /\ sessions' = sessions]_vars


\* ------------------------------------------------------------------------
\* C30: update-repo for a uid that is not in the user store answers
\* success = false, 'User not found', and leaves the store as it was, no
\* record created; for a known uid it sets selected_repo to the given
\* repository, touches no other record and answers success = true.
\* ------------------------------------------------------------------------
C30_UpdateRepo ==
  [][event'.op = "update_repo" =>
     \A uid \in Uids, repo \in Repos, disk \in Disk :
       update_repo(uid, repo, disk) =>
         IF uid \in DOMAIN users
           THEN /\ event'.status.kind = "repo_updated"
                /\ DOMAIN users' = DOMAIN users
                /\ users'[uid].selected_repo = repo
                /\ users'[uid].access_token = users[uid].access_token
                /\ \A u \in DOMAIN users \ {uid} : users'[u] = users[u]
           ELSE /\ event'.status.kind = "user_not_found"
                /\ users' = users
                /\ users_file' = users_file]_vars

\* u1's repository was changed by update-repo (the OAuth callback only
\* stores owner/repo), and an update for the unknown u2 has just been refused
C30_Witness ==
  /\ event.op = "update_repo"
  /\ event.status.kind = "user_not_found"
  /\ users["u1"].selected_repo = "owner/other"
  /\ "u2" \notin DOMAIN users


\* ------------------------------------------------------------------------
\* C31: refresh-repos for a uid that is unknown or has no access token
\* answers success = false, 'User not authenticated', and changes nothing
\* in the user store; for an authenticated user it replaces available_repos
\* by the fetched list, answers repos_count = the length of that list, and
\* leaves access_token, github_username and selected_repo as they were.
\* ------------------------------------------------------------------------
C31_RefreshRepos ==
  [][event'.op = "refresh_repos" =>
     \A uid \in Uids, fetched \in FetchedLists, disk \in Disk :
       refresh_repos(uid, fetched, disk) =>
         IF uid \in DOMAIN users /\ users[uid].access_token # ""
           THEN /\ event'.status = Status("repos_refreshed", Len(fetched))
                /\ DOMAIN users' = DOMAIN users
                /\ users'[uid].available_repos = fetched
                /\ users'[uid].access_token = users[uid].access_token
                /\ users'[uid].github_username = users[uid].github_username
                /\ users'[uid].selected_repo = users[uid].selected_repo
                /\ \A u \in DOMAIN users \ {uid} : users'[u] = users[u]
           ELSE /\ event'.status.kind = "not_authenticated"
                /\ users' = users
                /\ users_file' = users_file]_vars

\* u1's list of one repository has been replaced by the fetched list of two
C31_Witness ==
  /\ event.op = "refresh_repos"
  /\ event.status = Status("repos_refreshed", 2)
  /\ users["u1"].available_repos = <<"owner/other", "owner/repo">>
  /\ users["u1"].selected_repo = "owner/repo"
  /\ users["u1"].access_token = "token"

\* ------------------------------------------------------------------------
\* C32: an OAuth callback without code or without state, or with a state
\* that no auth start issued, is answered with status 400; it saves or
\* changes no user record and removes no pending OAuth state.
\* ------------------------------------------------------------------------
Issued(state) == \E p \in oauth_states : p[1] = state

C32_BadCallbackRejected ==
  [][event'.op = "auth_callback" =>
     \A code \in {"", "code"}, state \in {0} \cup OAuthStates :
       ((code = "" \/ state = 0 \/ ~Issued(state))
          /\ \E exchange \in {"token", "", "raise"} :
                auth_callback(code, state, exchange, <<>>, "writable")) =>
         /\ event'.status.n = 400
         /\ users' = users
         /\ users_file' = users_file
         /\ oauth_states' = oauth_states]_vars

\* a state is pending for u2 and a callback has just been refused
C32_Witness ==
  /\ event.op = "auth_callback"
  /\ event.status.n = 400
  /\ \E p \in oauth_states : p[2] = "u2"
  /\ "u2" \notin DOMAIN users


\* ------------------------------------------------------------------------
\* C33: in every reachable state, whatever the interleaving of live
\* batches, awaited returns and sweeper ticks, segments_count of every
\* session is at most MAX_SEGMENTS: collection is bounded.
\* ------------------------------------------------------------------------
C33_CountBounded ==
  \A i \in 1..Len(sessions) : sessions[i].segments_count <= MAX_SEGMENTS

\* the tenth fragment has been admitted and the session handed over
C33_Witness ==
  \E i \in 1..Len(sessions) :
     /\ sessions[i].segments_count = MAX_SEGMENTS
     /\ sessions[i].issue_mode = "processing"
     /\ Len(admitted[sessions[i].session_id]) = MAX_SEGMENTS


\* ------------------------------------------------------------------------
\* C34: a live batch that reaches a collecting session which has been idle
\* for more than IDLE_TIMEOUT and holds at least MIN_SEGMENTS fragments
\* finalizes the session with the text accumulated before: the batch's text
\* is not appended, segments_count is not incremented and the completeness
\* check is not called.
\* ------------------------------------------------------------------------
HandsOver(s, text) ==
  \E t \in BagToSet(tasks') :
     /\ t.pc = "finalizer" /\ t.session_id = s /\ t.accumulated = text
     /\ CopiesIn(t, tasks') = CopiesIn(t, tasks) + 1

C34_SilenceFinalizesWithoutBatch ==
  [][\A s \in SessionIds :
       (WebhookOn(s) /\ ModeOf(sessions, s) = "recording" /\ Silent(sessions, s)) =>
         /\ ModeOf(sessions', s) = "processing"
         /\ TextOf(sessions', s) = TextOf(sessions, s)
         /\ CountOf(sessions', s) = CountOf(sessions, s)
         /\ event'.status.kind = "awaiting_finalizer"
         /\ HandsOver(s, TextOf(sessions, s))
         /\ ClassifiersInFlight(s)' = ClassifiersInFlight(s)]_vars

\* a batch has finalized a session of three fragments: only silence does that
C34_Witness ==
  /\ event.op = "webhook"
  /\ event.status.kind = "awaiting_finalizer"
  /\ ModeOf(sessions, event.session_id) = "processing"
  /\ CountOf(sessions, event.session_id) = MIN_SEGMENTS
  /\ Len(admitted[event.session_id]) = MIN_SEGMENTS
  /\ event.full_text # <<>>


\* ------------------------------------------------------------------------
\* C35: on a session whose id starts with test_session, a trigger batch
\* that reaches the session idle and whose extracted content is longer
\* than TEST_MODE_LEN is processed inside that call, on the extracted
\* content, and the session ends idle without having been collecting; a
\* trigger batch whose extraction is null or at most TEST_MODE_LEN long
\* starts a collection and is answered collecting_1.
\* ------------------------------------------------------------------------
LongContent(text) ==
  Extracted[text] # None /\ Len(Extracted[text]) > TEST_MODE_LEN

C35_TestSessionTrigger ==
  [][/\ \A s \in SessionIds :
          (/\ WebhookOn(s) /\ is_test_session(s)
           /\ ModeOf(sessions, s) = "idle" /\ Detected[event'.full_text]) =>
            IF LongContent(event'.full_text)
              THEN /\ event'.status.kind = "awaiting_test_generate"
                   /\ ModeOf(sessions', s) = "idle"
                   /\ \E t \in BagToSet(tasks') :
                        /\ t.pc = "test_generate" /\ t.session_id = s
                        /\ t.accumulated = Extracted[event'.full_text]
                        /\ CopiesIn(t, tasks') = CopiesIn(t, tasks) + 1
              ELSE /\ event'.status = Status("collecting", 1)
                   /\ ModeOf(sessions', s) = "recording"
     /\ \A t \in BagToSet(tasks), run \in FinalizerRuns :
          TestGenerateReturn(t, run[1], run[2]) =>
            ModeOf(sessions', t.session_id) = "idle"]_vars


\* ------------------------------------------------------------------------
\* C36: the completeness check reports is_complete = true exactly when the
\* model's reply contains 'COMPLETE: yes' and is_still_on_topic = true
\* exactly when it contains 'ON_TOPIC: yes'; so the reply 'COMPLETE: no /
\* ON_TOPIC: yes' makes the resumed request keep collecting and a reply
\* with 'COMPLETE: yes' makes it finalize.
\* ------------------------------------------------------------------------
C36_AdapterReadsMarkers ==
  [][\A t \in BagToSet(tasks), reply \in ClassifierReplies :
       ClassifierReturn(t, reply) =>
         LET check_result == ai_check_if_issue_complete(reply)
         IN  /\ check_result.is_complete <=> SaysComplete(reply)
             /\ check_result.is_still_on_topic <=> SaysOnTopic(reply)
             /\ reply = ReplyNoYes => event'.status.kind = "collecting"
             /\ SaysComplete(reply) => event'.status.kind = "awaiting_finalizer"]_vars


\* ------------------------------------------------------------------------
\* C37: a trigger phrase that arrives while the session is collecting or
\* in processing never restarts or reseeds the session.
\* ------------------------------------------------------------------------
TriggerOn(s) == WebhookOn(s) /\ Detected[event'.full_text]

Dropped(s) ==
  /\ event'.status = Status("processing", 0)
  /\ sessions' = sessions

\* C37 as stated: in collecting the batch is appended in full, the phrase
\* included, and the count is not reset to 1; in processing it is dropped.
C37_Original ==
  [][\A s \in SessionIds :
       /\ (TriggerOn(s) /\ ModeOf(sessions, s) = "recording") => BatchAppended(s)
       /\ (TriggerOn(s) /\ ModeOf(sessions, s) = "processing") => Dropped(s)]_vars

\* C37 amended: in collecting the batch is handled as any other text: it is
\* appended in full, the phrase included, unless the session has been idle
\* for more than IDLE_TIMEOUT with at least MIN_SEGMENTS fragments, when it
\* is not appended and the session is finalized with the text it had; in
\* both cases the text keeps what it held and the count does not go back;
\* in processing the batch is dropped.
C37_TriggerNeverRestarts ==
  [][\A s \in SessionIds :
       /\ (TriggerOn(s) /\ ModeOf(sessions, s) = "recording") =>
            /\ IF Silent(sessions, s)
                 THEN /\ TextOf(sessions', s) = TextOf(sessions, s)
                      /\ CountOf(sessions', s) = CountOf(sessions, s)
                      /\ ModeOf(sessions', s) = "processing"
                 ELSE BatchAppended(s)
            /\ IsPrefix(TextOf(sessions, s), TextOf(sessions', s))
            /\ CountOf(sessions', s) >= CountOf(sessions, s)
       /\ (TriggerOn(s) /\ ModeOf(sessions, s) = "processing") => Dropped(s)]_vars

\* a second 'File Bug x' has been appended in full to a collecting session
C37_Witness ==
  /\ event.op = "webhook"
  /\ Detected[event.full_text]
  /\ ModeOf(sessions, event.session_id) = "recording"
  /\ CountOf(sessions, event.session_id) >= 2
  /\ IsSuffix(<<" ">> \o event.full_text, TextOf(sessions, event.session_id))


\* ------------------------------------------------------------------------
\* C38: when the request carries no session_id parameter and the JSON
\* object has a session_id field, the session addressed is the one the
\* payload names; the default omi_session_<uid> is used only when neither
\* is present.
\* ------------------------------------------------------------------------
C38_PayloadSessionId ==
  [][\A query \in {"", "test_session_1"}, payload_sid \in {"", "test_session_1"},
        segments \in Batches :
       WebhookAddressed(query, payload_sid, segments) =>
         event'.session_id = IF query # "" THEN query
                             ELSE IF payload_sid # "" THEN payload_sid
                             ELSE DefaultSession("u1")]_vars


\* ------------------------------------------------------------------------
\* C39: the request of a uid without a stored access token is answered 401,
\* that of a uid with a token and no selected repository 400, both with
\* setup_required, before any session is looked up: no session is created
\* and no session changes its mode, text or count; a request that gets past
\* is that of a user with both.
\* ------------------------------------------------------------------------
C39_RefusedBeforeSession ==
  [][/\ \A uid \in Uids, query \in {"", "omi_session_u1"} :
          WebhookRefused(uid, query) =>
            /\ Respond(event') =
                 SetupRequired(IF ~Authenticated(users, uid) THEN 401 ELSE 400)
            /\ sessions' = sessions /\ tasks' = tasks
     /\ (event'.op = "webhook" /\ event'.status.kind # "setup_required") =>
          /\ Authenticated(users, uid_of(event'.session_id))
          /\ users[uid_of(event'.session_id)].selected_repo # ""]_vars

\* u1 lost the access token while its session collects, and its request
\* has just been refused
C39_Witness ==
  /\ event.op = "webhook" /\ event.status = Status("setup_required", 401)
  /\ event.session_id = "omi_session_u1"
  /\ ~Authenticated(users, "u1")
  /\ Has(sessions, "omi_session_u1")
  /\ Get(sessions, "omi_session_u1").issue_mode = "recording"

\* u2 connected an account without repositories and is refused with 400
C39_NoRepository ==
  /\ event.op = "webhook" /\ event.status = Status("setup_required", 400)
  /\ Authenticated(users, "u2") /\ users["u2"].selected_repo = ""
  /\ sessions # <<>>


\* ------------------------------------------------------------------------
\* C40: the sweeper never stops. When process_issue_creation raises for a
\* stalled session, that session is reset to idle, empty, and the sweeper
\* goes on in the same tick with the next stalled session whose user is set
\* up, marking it processing and handing it over; and ticks keep coming,
\* whatever was raised before.
\* ------------------------------------------------------------------------
C40_SweeperNeverStops ==
  /\ [][(event'.op = "sweeper_return" /\ event'.raised) =>
          LET s == Head(sweeper.idle_sessions).session_id
              rest == SkipUnready(Tail(sweeper.idle_sessions))
          IN  /\ ModeOf(sessions', s) = "idle"
              /\ TextOf(sessions', s) = <<>> /\ CountOf(sessions', s) = 0
              /\ IF rest = <<>>
                   THEN sweeper'.pc = "sleep"
                   ELSE /\ sweeper'.pc = "finalizer"
                        /\ sweeper'.idle_sessions = rest
                        /\ event'.session_id = Head(rest).session_id
                        /\ FinalizerStarted'
                        /\ ModeOf(sessions', Head(rest).session_id) = "processing"]_vars
  /\ []<>(event.op = "sweeper_tick")

\* C40 witness: process_issue_creation raised for the first of two stalled
\* sessions of a tick; it is idle again and the sweeper has started on the
\* second
C40_Witness ==
  /\ event.op = "sweeper_return" /\ event.raised
  /\ swept = SessionIds
  /\ sweeper.pc = "finalizer"
  /\ \E s \in SessionIds :
       /\ s # event.session_id
       /\ ModeOf(sessions, s) = "idle"
       /\ ModeOf(sessions, event.session_id) = "processing"

====
